---- MODULE Spec2Model ----
(***************************************************************************)
(* A model of fireodm: the BaseModel CRUD engine (save / update / delete), *)
(* the document mapper (_toFirestore / _fromFirestore), the relation       *)
(* resolver (populate) and the ambient transaction context                 *)
(* (runInTransaction / runInBatch over an AsyncLocalStorage slot).         *)
(*                                                                         *)
(* The external document store is modelled by what its capability          *)
(* interface does: documents at paths, set / update / delete, an atomic    *)
(* commit of a queue of writes.                                            *)
(***************************************************************************)
EXTENDS Integers, Sequences, FiniteSets, TLC

(***************************************************************************)
(* Bounds                                                                  *)
(***************************************************************************)
\* number of save/update/delete calls issued in one behaviour
MaxOps == 2
\* number of runInTransaction / runInBatch invocations in one behaviour
MaxUnits == 1
\* number of levels of related documents one populate call is followed through
MaxDepth == 3

(***************************************************************************)
(* Values held by instance fields and stored documents.  Every value is a  *)
(* record of one shape: k its kind, m the model of a resolved instance,    *)
(* id the identity key (of a pointer or a resolved instance) or the name   *)
(* of a sentinel, p a document path, n a number.                           *)
(***************************************************************************)
NoId == ""
NoPath == << >>

Val(k, m, id, p, n) == [k |-> k, m |-> m, id |-> id, p |-> p, n |-> n]
Undef == Val("undefined", "", "", NoPath, 0)
Null == Val("null", "", "", NoPath, 0)
Num(x) == Val("number", "", "", NoPath, x)
Bool(b) == Val("boolean", "", "", NoPath, IF b THEN 1 ELSE 0)
DateV(x) == Val("date", "", "", NoPath, x)
Ts(x) == Val("timestamp", "", "", NoPath, x)
Fn == Val("function", "", "", NoPath, 0)
\* a DocumentReference: its id is the last segment of its path
Ref(path) == Val("ref", "", path[Len(path)], path, 0)
\* a resolved BaseModel instance of model m with identity key id, loaded from path p
InstV(m, id, p) == Val("inst", m, id, p, 0)
\* FieldValue sentinels
FvDelete == Val("fieldvalue", "", "delete", NoPath, 0)
FvIncrement == Val("fieldvalue", "", "increment", NoPath, 1)
FvServerTime == Val("fieldvalue", "", "serverTimestamp", NoPath, 0)

IsRef(v) == v.k = "ref"
IsInst(v) == v.k = "inst"
IsFieldValue(v) == v.k = "fieldvalue"

\* the reading of the clock by Timestamp.now()
Now == Ts(7)

EmptyMap == [x \in {} |-> Undef]
Restrict(f, S) == [x \in S |-> f[x]]
Override(f, g) == [x \in (DOMAIN f) \cup (DOMAIN g) |->
                     IF x \in DOMAIN g THEN g[x] ELSE f[x]]

(***************************************************************************)
(* Schema registry: what the decorators record per model class.            *)
(***************************************************************************)
Models == {"User", "Dept", "Gift", "Note", "Emp", "Team", "Admin"}

\* @Collection(name)
CollectionMeta(m) ==
  CASE m = "User" -> "users"
    [] m = "Dept" -> "departments"
    [] m = "Emp" -> "employees"
    [] m = "Team" -> "teams"
    [] OTHER -> ""

\* @SubCollectionModel(parent, subPath)
SubModelMeta(m) ==
  CASE m = "Gift" -> [has |-> TRUE, parentModel |-> "User", subPath |-> "gift-cards"]
    [] m = "Note" -> [has |-> TRUE, parentModel |-> "Gift", subPath |-> "notes"]
    [] OTHER -> [has |-> FALSE, parentModel |-> "", subPath |-> ""]

\* @SubCollection(() => Model, name) on a property: what SUBCOL_KEY holds for
\* the class itself
SubCollectionOwn(m) ==
  CASE m = "User" -> { [propertyName |-> "cards", name |-> "gift-cards", model |-> "Gift"] }
    [] m = "Gift" -> { [propertyName |-> "notes", name |-> "notes", model |-> "Note"] }
    [] OTHER -> {}

\* the superclass of a model class ("" is Object.prototype's side of BaseModel):
\* class Admin extends User, with no @Collection of its own
ProtoOf(m) == IF m = "Admin" THEN "User" ELSE ""

\* getCollectionName: the first @Collection or @SubCollectionModel up the prototype chain
RECURSIVE getCollectionName(_)
getCollectionName(m) ==
  IF m = "" THEN ""
  ELSE IF CollectionMeta(m) # "" THEN CollectionMeta(m)
  ELSE IF SubModelMeta(m).has THEN SubModelMeta(m).subPath
  ELSE getCollectionName(ProtoOf(m))

\* @Relation(() => Related, {lazy})
RelationOwn(m) ==
  CASE m = "User" -> { [propertyName |-> "r", relatedModel |-> "Dept", lazy |-> TRUE],
                        [propertyName |-> "g", relatedModel |-> "Gift", lazy |-> TRUE] }
    [] m = "Emp" -> { [propertyName |-> "lead", relatedModel |-> "Team", lazy |-> FALSE] }
    [] m = "Team" -> { [propertyName |-> "owner", relatedModel |-> "Emp", lazy |-> FALSE] }
    [] m = "Admin" -> { [propertyName |-> "r", relatedModel |-> "Team", lazy |-> TRUE] }
    [] OTHER -> {}

\* getRelationMetadata: own relations first, then the ancestors' not yet defined
RECURSIVE getRelationMetadata(_)
getRelationMetadata(m) ==
  IF m = "" THEN {}
  ELSE LET own == RelationOwn(m)
           up == getRelationMetadata(ProtoOf(m))
       IN own \cup { rel \in up : \A o \in own : o.propertyName # rel.propertyName }

relationProperties(m) == { rel.propertyName : rel \in getRelationMetadata(m) }
RelatedModelOf(m, key) ==
  (CHOOSE rel \in getRelationMetadata(m) : rel.propertyName = key).relatedModel

\* @TimestampField({autoFill: true}) and @BooleanField({defaultValue})
TimestampDefaults(m) == IF m = "User" THEN {"ts"} ELSE {}
\* the @BooleanField({defaultValue}) declarations of a class
BooleanDeclared(m) ==
  IF m = "User" THEN { [prop |-> "act", defaultValue |-> TRUE],
                       [prop |-> "off", defaultValue |-> FALSE] }
  ELSE {}
\* BooleanField: "if (opts.defaultValue)" records the default under BOOLEAN_KEY
BooleanDefaults(m) == { d \in BooleanDeclared(m) : d.defaultValue }

\* the declared validation shape of a model: field -> kind
SchemaShape(m) ==
  CASE m = "User" -> [a |-> "number0to120", b |-> "number", r |-> "docref",
                       g |-> "docref", act |-> "boolean", off |-> "boolean",
                       ts |-> "timestamp"]
    [] m = "Dept" -> [n |-> "number"]
    [] m = "Note" -> [c |-> "number0to120"]
    [] m = "Admin" -> [lvl |-> "number", r |-> "docref", g |-> "docref"]
    [] OTHER -> [c |-> "number"]

\* one declared field's check (every declared field is optional: undefined passes)
FieldOk(kind, v) ==
  CASE kind = "number0to120" -> v.k = "number" /\ v.n >= 0 /\ v.n <= 120
    [] kind = "number" -> v.k = "number"
    [] kind = "boolean" -> v.k = "boolean"
    [] kind = "timestamp" -> v.k = "timestamp"
    [] kind = "docref" -> v.k \in {"ref", "inst", "null"}
    [] OTHER -> FALSE

\* names an instance has as methods of its prototype
MethodNames == {"save", "update", "delete", "populate"}
\* key.startsWith("_")
StartsWithUnderscore(key) == key \in {"_tmp", "_populatedRelations", "__parent"}


(***************************************************************************)
(* Document mapper                                                         *)
(***************************************************************************)
\* typeof this[key] === "function": a method of the prototype, or an own
\* property holding a function
IsFunctionProp(f, key) ==
  IF key \in DOMAIN f THEN f[key].k = "function" ELSE key \in MethodNames

\* BaseModel._toFirestore: whether own property key of an instance of model m
\* with fields f is emitted (serializing: persist mode)
toFirestoreEmits(m, f, key, serializing) ==
  LET v == f[key] IN
  IF key = "id" \/ StartsWithUnderscore(key) \/ IsFunctionProp(f, key) THEN FALSE
  ELSE IF key \in relationProperties(m) THEN
         IF IsInst(v) THEN serializing
         ELSE IF IsRef(v) THEN TRUE
         ELSE serializing /\ v = Null
  ELSE v # Undef

\* BaseModel._toFirestore: the value emitted for an emitted key
toFirestoreValue(m, f, key) ==
  LET v == f[key] IN
  IF key \in relationProperties(m) /\ IsInst(v) THEN
       IF v.id # NoId
         THEN Ref(<< getCollectionName(RelatedModelOf(m, key)), v.id >>)
         ELSE Null
  ELSE IF v.k = "date" THEN Ts(v.n)
  ELSE v

\* BaseModel._toFirestore(serializing)
toFirestore(m, f, serializing) ==
  LET keys == { key \in DOMAIN f : toFirestoreEmits(m, f, key, serializing) }
  IN [key \in keys |-> toFirestoreValue(m, f, key)]

\* a document snapshot; typed: snapshot.ref carries the converter of a model
\* class (it was got through a reference made with withConverter)
Snapshot(path, exists, data) ==
  [path |-> path, id |-> path[Len(path)], exists |-> exists, data |-> data,
   typed |-> FALSE]

\* an instance: its model, identity key, own data properties, relation cache
\* (_populatedRelations), ownership link (__parent, an instance name or "")
\* and cached document reference (__docRef, a path; NoPath: none yet;
\* typed: the cached reference carries the converter of the class)
Instance(m, id, f, cache, parent) ==
  [model |-> m, id |-> id, f |-> f, cache |-> cache, parent |-> parent,
   docRef |-> NoPath, typed |-> FALSE]
NoInstance == Instance("", NoId, EmptyMap, EmptyMap, "")

\* BaseModel._fromFirestore: null for a missing document; otherwise the data
\* that is not a relation pointer goes through the constructor, the relation
\* pointers are assigned afterwards, the identity key is the snapshot's
\* (unless the data assigned by the constructor replaces it) and the cached
\* document reference is snapshot.ref
fromFirestore(m, snapshot) ==
  IF ~snapshot.exists THEN NoInstance
  ELSE LET data == snapshot.data
           isRelationRef(key) == key \in relationProperties(m) /\ IsRef(data[key])
           instanceData == Restrict(data, { key \in DOMAIN data : ~isRelationRef(key) })
           refs == Restrict(data, { key \in DOMAIN data : isRelationRef(key) })
           \* "this.id = idOrParent; Object.assign(this, data)": a stored
           \* field named id (a string) replaces the key just assigned
           id == IF "id" \in DOMAIN instanceData THEN instanceData["id"].id
                 ELSE snapshot.id
           own == Restrict(instanceData, DOMAIN instanceData \ {"id"})
       IN [Instance(m, id, Override(own, refs), EmptyMap, "")
             EXCEPT !.docRef = snapshot.path, !.typed = snapshot.typed]

\* BaseModel.validate: the mapped document against the model's shape
\* (z.object(shape).strict(): no undeclared key, every present key of its kind)
validationIssues(m, data) ==
  { key \in DOMAIN data :
      IF key \in DOMAIN SchemaShape(m) THEN ~FieldOk(SchemaShape(m)[key], data[key])
      ELSE TRUE }
\* a model without a schema: "if (!schema) return"
validateNoSchema(m, data) == TRUE
validate(m, data) == validationIssues(m, data) = {}

\* "this._builtSchema" read on the constructor m: its own property, or the one
\* of the closest constructor above it that holds one ("" when none does)
RECURSIVE builtSchemaOf(_, _)
builtSchemaOf(B, m) ==
  IF m = "" THEN "" ELSE IF m \in B THEN m ELSE builtSchemaOf(B, ProtoOf(m))

\* static get schema() on the constructor m, B the constructors holding a
\* built schema: the schema found is returned; when none is found the schema
\* is built from m's own validation metadata and stored on m
\* (of: the model whose declared shape the returned schema checks)
schema(B, m) ==
  LET found == builtSchemaOf(B, m)
  IN IF found # "" THEN [of |-> found, built |-> B]
     ELSE [of |-> m, built |-> B \cup {m}]

(***************************************************************************)
(* The document store (external): documents by path                        *)
(***************************************************************************)
Exists(s, path) == path \in DOMAIN s
GetDoc(s, path) ==
  IF Exists(s, path) THEN Snapshot(path, TRUE, s[path])
  ELSE Snapshot(path, FALSE, EmptyMap)

\* "this.getCollectionRef().doc(id).get()": the snapshot of a reference made
\* with the converter of the class, which snapshot.ref is.  (The snapshot a
\* converter is handed by doc.data() has a reference without converter.)
GetDocTyped(s, path) == [GetDoc(s, path) EXCEPT !.typed = TRUE]

\* what the store writes for a field written with value v over document old
WrittenValue(old, key, v) ==
  IF ~IsFieldValue(v) THEN v
  ELSE IF v.id = "increment" THEN
         IF key \in DOMAIN old /\ old[key].k = "number"
           THEN Num(old[key].n + v.n) ELSE Num(v.n)
  ELSE Now

\* the fields of data the store keeps (FieldValue.delete() removes the field)
KeptKeys(data) == { key \in DOMAIN data : data[key] # FvDelete }

\* DocumentReference.set(data, options)
SetMerge(old, data) ==
  LET base == Restrict(old, (DOMAIN old) \ (DOMAIN data))
      new == [key \in KeptKeys(data) |-> WrittenValue(old, key, data[key])]
  IN Override(base, new)
\* a set that would keep the fields the data does not name
SetKeepsOld(old, data) == SetMerge(old, data)

SetOverwrite(old, data) ==
  [key \in KeptKeys(data) |-> WrittenValue(EmptyMap, key, data[key])]
StoreSet(s, path, data, merge) ==
  LET old == IF Exists(s, path) THEN s[path] ELSE EmptyMap
      doc == IF merge THEN SetMerge(old, data) ELSE SetOverwrite(old, data)
  IN [q \in (DOMAIN s) \cup {path} |-> IF q = path THEN doc ELSE s[q]]

\* a write of the patch as the whole document
StoreReplace(s, path, patch) == StoreSet(s, path, patch, FALSE)

\* DocumentReference.update(patch): the document must exist
StoreUpdate(s, path, patch) ==
  [q \in DOMAIN s |-> IF q = path THEN SetMerge(s[path], patch) ELSE s[q]]

\* DocumentReference.delete()
StoreDelete(s, path) == Restrict(s, (DOMAIN s) \ {path})

\* a write: kind is "set", "update" or "delete"
Write(kind, path, data, merge) ==
  [kind |-> kind, path |-> path, data |-> data, merge |-> merge]
\* the store's API takes no function as a field value
Serializable(data) == \A key \in DOMAIN data : data[key].k # "function"
\* whether the store accepts the write
WriteOk(s, w) == Serializable(w.data) /\ (w.kind = "update" => Exists(s, w.path))
ApplyWrite(s, w) ==
  CASE w.kind = "set" -> StoreSet(s, w.path, w.data, w.merge)
    [] w.kind = "update" -> StoreUpdate(s, w.path, w.data)
    [] OTHER -> StoreDelete(s, w.path)

\* an atomic commit of a queue of writes: all applied in order, or none
RECURSIVE ApplyAll(_, _)
ApplyAll(s, q) ==
  IF q = << >> THEN [ok |-> TRUE, s |-> s]
  ELSE IF ~WriteOk(s, Head(q)) THEN [ok |-> FALSE, s |-> s]
  ELSE ApplyAll(ApplyWrite(s, Head(q)), Tail(q))

(***************************************************************************)
(* The relation resolver                                                   *)
(***************************************************************************)
\* this[key]: undefined for a property the instance does not have
Get(f, key) == IF key \in DOMAIN f THEN f[key] ELSE Undef

\* the resolved instance as the value of a relation field: the instance
\* RelatedModel._fromFirestore builds from the snapshot, with the key the
\* mapping gives it and the path of the document it was mapped from
Resolved(m, snapshot) ==
  IF snapshot.exists THEN InstV(m, fromFirestore(m, snapshot).id, snapshot.path) ELSE Null

\* populate, the fetch of the related document: "await value.get()" for a
\* related sub-collection model, RelatedModel.findById(value.id) otherwise
populateFetch(s, related, value) ==
  IF SubModelMeta(related).has
    THEN Resolved(related, GetDoc(s, value.p))
    ELSE Resolved(related, GetDoc(s, << getCollectionName(related), value.id >>))

\* BaseModel.populate(fieldName) on instance me
populate(s, me, fieldName) ==
  IF fieldName \notin relationProperties(me.model) THEN me
  ELSE IF fieldName \in DOMAIN me.cache THEN
    [me EXCEPT !.f = Override(@, [key \in {fieldName} |-> me.cache[fieldName]])]
  ELSE
    LET value == Get(me.f, fieldName)
        relatedInstance == populateFetch(s, RelatedModelOf(me.model, fieldName), value)
    IN IF IsRef(value) THEN
         [me EXCEPT !.f = Override(@, [key \in {fieldName} |-> relatedInstance]),
                    !.cache = Override(@, [key \in {fieldName} |-> relatedInstance])]
       ELSE IF IsInst(value) THEN
         [me EXCEPT !.cache = Override(@, [key \in {fieldName} |-> value])]
       ELSE IF value \in {Null, Undef} THEN
         [me EXCEPT !.cache = Override(@, [key \in {fieldName} |-> Null])]
       ELSE me


(***************************************************************************)
(* Reading: findById with its options, and what reload makes of the answer *)
(***************************************************************************)
\* the answers of DocumentReference.get(): a snapshot, an error of code 5
\* (NOT_FOUND), or any other error
GetOutcomes == {"ok", "code5", "error"}

\* FindOptions.populate: absent, or the list of the fields to resolve
NoPopulate == [given |-> FALSE, fieldNames |-> {}, populateSub |-> << >>]
PopulateOf(fieldNames) == [given |-> TRUE, fieldNames |-> fieldNames, populateSub |-> << >>]

\* the elements of a list
Range(q) == { q[k] : k \in DOMAIN q }

\* the elements of a set as a list
RECURSIVE ListOf(_)
ListOf(S) ==
  IF S = {} THEN << >>
  ELSE LET x == CHOOSE y \in S : TRUE IN << x >> \o ListOf(S \ {x})

\* the relations declared with lazy: false
eagerRels(m) == { rel.propertyName : rel \in { x \in getRelationMetadata(m) : ~x.lazy } }

\* instance.populate(fieldNames), every fetch answered from s
RECURSIVE populateEach(_, _, _)
populateEach(s, me, fieldNames) ==
  IF fieldNames = {} THEN me
  ELSE LET fieldName == CHOOSE x \in fieldNames : TRUE
       IN populateEach(s, populate(s, me, fieldName), fieldNames \ {fieldName})

\* a catch that takes no error for a not-found signal
isNotFoundCodeNever(outcome) == FALSE

\* "if (error.code === 5) return null"
isNotFoundCode(outcome) == outcome = "code5"

\* a where-filter, as findWhere takes it and as a queryFn adds it to the
\* collection it is given: ref.where(field, op, value); NoCond: no queryFn
Cond(field, op, value) == [field |-> field, op |-> op, value |-> value]
NoCond == Cond("", "", Undef)

\* the store's evaluation of a where-filter on a document
Matches(doc, c) ==
  /\ c.field \in DOMAIN doc
  /\ IF c.op = "==" THEN doc[c.field] = c.value
     ELSE doc[c.field].k = "number" /\ doc[c.field].n >= c.value.n

\* a subcollection that would return the rows without the ownership link
subcollectionUnowned(s, I, i, prop, queryFn) ==
  LET metas == { x \in SubCollectionOwn(I[i].model) : x.propertyName = prop }
      meta == CHOOSE x \in metas : TRUE
      at(id) == I[i].docRef \o << meta.name, id >>
      yields(id) == /\ Exists(s, at(id))
                    /\ queryFn # NoCond => Matches(s[at(id)], queryFn)
      docs == SelectSeq(<< "c1", "c2", "c3", "g1", "g2", "g3", "g4" >>, yields)
  IN IF metas = {} THEN [err |-> "Error", rows |-> << >>]
     ELSE [err |-> "",
           rows |-> [k \in 1 .. Len(docs) |->
                       fromFirestore(meta.model, GetDoc(s, at(docs[k])))]]

\* instance.subcollection(prop, queryFn), instance I[i] with its reference
\* resolved: the documents of <reference>/<declared name> that queryFn
\* selects (all without queryFn), in the order of their keys, each mapped by
\* the declared model and given the instance as its owner
subcollection(s, I, i, prop, queryFn) ==
  LET metas == { x \in SubCollectionOwn(I[i].model) : x.propertyName = prop }
      meta == CHOOSE x \in metas : TRUE
      at(id) == I[i].docRef \o << meta.name, id >>
      yields(id) == /\ Exists(s, at(id))
                    /\ queryFn # NoCond => Matches(s[at(id)], queryFn)
      docs == SelectSeq(<< "c1", "c2", "c3", "g1", "g2", "g3", "g4" >>, yields)
  IN IF metas = {} THEN [err |-> "Error", rows |-> << >>]
     ELSE [err |-> "",
           rows |-> [k \in 1 .. Len(docs) |->
                       [fromFirestore(meta.model, GetDoc(s, at(docs[k])))
                          EXCEPT !.parent = i]]]

\* an array of instances, as a property value
ListV(rows) == [k |-> "list", rows |-> rows]

\* "for (const propName of ...) { const items = await
\* instance.subcollection(propName); instance[propName] = items }" over
\* declared properties: each is set to the rows of its sub-collection, which
\* have the instance as their owner
RECURSIVE attachSubs(_, _, _)
attachSubs(s, me, props) ==
  IF props = {} THEN me
  ELSE LET propName == CHOOSE x \in props : TRUE
           items == subcollection(s, [x \in {"this"} |-> me], "this", propName, NoCond).rows
       IN attachSubs(s, [me EXCEPT !.f = Override(@, [x \in {propName} |-> ListV(items)])],
                     props \ {propName})

\* the properties a class declares as sub-collections itself
eagerSubs(m) == { x.propertyName : x \in SubCollectionOwn(m) }

\* "options?.populateSub?.length ? options.populateSub : eagerSubs"
subsToPopulate(m, options) ==
  IF options.populateSub # << >> THEN options.populateSub ELSE ListOf(eagerSubs(m))

\* RelatedModel.findById(value.id) without options: the eager relations of
\* the document found that hold a pointer, each to be fetched in its turn
eagerPointers(s, related, value, outcome) ==
  LET target == fromFirestore(related, GetDoc(s, << getCollectionName(related), value.id >>))
  IN IF outcome # "ok" \/ SubModelMeta(related).has \/ target = NoInstance THEN {}
     ELSE { [related |-> RelatedModelOf(related, key), value |-> target.f[key]] :
              key \in { k \in eagerRels(related) : IsRef(Get(target.f, k)) } }

\* the afterLoad calls on instances of class m that the fetch of the pointer
\* value makes: "await value.get()" and RelatedModel._fromFirestore(docSnap)
\* map the document found once; RelatedModel.findById(value.id) maps it
\* twice, see findByIdWith
afterLoadCalls(s, m, related, value, outcome) ==
  IF outcome # "ok" \/ related # m THEN 0
  ELSE IF SubModelMeta(related).has THEN (IF Exists(s, value.p) THEN 1 ELSE 0)
  ELSE IF Exists(s, << getCollectionName(related), value.id >>) THEN 2 ELSE 0

\* the sum of F over the set S
RECURSIVE SumOf(_, _)
SumOf(F, S) ==
  IF S = {} THEN 0
  ELSE LET x == CHOOSE y \in S : TRUE IN F[x] + SumOf(F, S \ {x})

\* the afterLoad calls on instances of class m made by the fetch of the
\* pointer value and by the fetches of the eager relations below it, the
\* fetch being at the given level of the walk (followed down to MaxDepth)
RECURSIVE afterLoadBelow(_, _, _, _, _)
afterLoadBelow(s, m, related, value, level) ==
  LET below == eagerPointers(s, related, value, "ok")
      each == [b \in below |-> afterLoadBelow(s, m, b.related, b.value, level + 1)]
  IN afterLoadCalls(s, m, related, value, "ok")
       + (IF level < MaxDepth THEN SumOf(each, below) ELSE 0)

\* BaseModel.findById(id, options) when the store answers the get with
\* outcome and no write comes between its round trips: v the instance
\* returned (NoInstance: null), err the error thrown, nLoad the number of
\* afterLoad calls on instances of the class.  The collection reference has
\* the class's converter, so "this._fromFirestore(docSnap)" maps a document
\* found twice: docSnap.data() runs the converter's fromFirestore, which is
\* Self._fromFirestore(snapshot), and the instance returned is built from
\* the instance that gives (the same key, fields and reference), afterLoad
\* being called on each.  The requested relations, or else the eager ones,
\* are resolved on the mapped instance; then the requested sub-collections,
\* or else all the declared ones, are attached, a requested name without a
\* declaration being skipped ("if (!meta) continue").
findByIdWith(s, m, id, options, outcome) ==
  LET instance == fromFirestore(m, GetDocTyped(s, << getCollectionName(m), id >>))
      fieldNames == IF options.given THEN options.fieldNames ELSE eagerRels(m)
      subs == Range(subsToPopulate(m, options)) \cap eagerSubs(m)
      fetched == { key \in fieldNames \cap relationProperties(m) :
                     IsRef(Get(instance.f, key)) }
      below == [key \in fetched |->
                  afterLoadBelow(s, m, RelatedModelOf(m, key), instance.f[key], 1)]
  IN IF outcome # "ok" THEN
          IF isNotFoundCode(outcome) THEN [err |-> "", v |-> NoInstance, nLoad |-> 0]
          ELSE [err |-> "StoreError", v |-> NoInstance, nLoad |-> 0]
     ELSE IF instance = NoInstance THEN [err |-> "", v |-> NoInstance, nLoad |-> 0]
     ELSE [err |-> "", v |-> attachSubs(s, populateEach(s, instance, fieldNames), subs),
           nLoad |-> 2 + SumOf(below, fetched)]

\* BaseModel.findById(id): the instance of the document of key id with its
\* eager relations resolved and its declared sub-collections attached, or null
findById(s, m, id) == findByIdWith(s, m, id, NoPopulate, "ok").v

\* a guard that lets every instance through
hasNoIdNever(me) == FALSE

\* BaseModel.findAll({queryFn}): the keys of the documents of the model's
\* collection that the query built by queryFn selects, all of them without
\* queryFn (no ordering, cursor or limit option is given)
findAll(s, m, queryFn) ==
  { p[2] : p \in { q \in DOMAIN s :
                     /\ Len(q) = 2 /\ q[1] = getCollectionName(m)
                     /\ queryFn # NoCond => Matches(s[q], queryFn) } }

\* BaseModel.findWhere(field, op, value, options):
\* findAll({...options, queryFn: (ref) => ref.where(field, op, value)})
findWhere(s, m, c, options) ==
  LET given == [queryFn |-> options.queryFn]
      passed == [given EXCEPT !.queryFn = c]
  IN findAll(s, m, passed.queryFn)

\* BaseModel.findAll(options) with the query answered by the store: every
\* selected document is mapped by doc.data() (afterLoad called once), its
\* requested relations, or else the eager ones, are resolved, and every
\* requested sub-collection, or else every declared one, is attached by
\* instance.subcollection, which throws for a name without a declaration, on
\* the first document of the answer; rows: key -> instance, nLoad the number
\* of afterLoad calls on instances of the class
findAllWith(s, m, queryFn, options) ==
  LET keys == findAll(s, m, queryFn)
      fieldNames == IF options.given THEN options.fieldNames ELSE eagerRels(m)
      subs == Range(subsToPopulate(m, options))
      mapped(id) == fromFirestore(m, GetDoc(s, << getCollectionName(m), id >>))
      row(id) == attachSubs(s, populateEach(s, mapped(id), fieldNames),
                            subs \cap eagerSubs(m))
      fetched(id) == { key \in fieldNames \cap relationProperties(m) :
                         IsRef(Get(mapped(id).f, key)) }
      calls == [id \in keys |->
                  1 + SumOf([key \in fetched(id) |->
                               afterLoadBelow(s, m, RelatedModelOf(m, key),
                                              mapped(id).f[key], 1)],
                            fetched(id))]
  IN IF keys # {} /\ ~(subs \subseteq eagerSubs(m))
       THEN [err |-> "Error", rows |-> EmptyMap,
             nLoad |-> calls[CHOOSE id \in keys : TRUE]]
       ELSE [err |-> "", rows |-> [id \in keys |-> row(id)], nLoad |-> SumOf(calls, keys)]

\* "if (!this.id) throw new Error(...)": the guard of update, delete and reload
hasNoId(me) == me.id = NoId

\* a reload that would empty the cache before it looks at the answer
atNotFoundCleared(me) == [me EXCEPT !.cache = EmptyMap]

\* reload(), the instance when the fresh one is null: NotFoundError is thrown
\* before anything is assigned
atNotFound(me) == me

\* reload(), after the fetch: the cache is emptied, every own property of the
\* fresh instance but "id" is assigned to this (its data fields, its
\* _populatedRelations, its __docRef), then the cache is seeded with the relation fields
\* that hold an instance or null
reloaded(me, fresh) ==
  LET f == Override(me.f, fresh.f)
      seeded == { key \in relationProperties(me.model) \cap DOMAIN f :
                    IsInst(f[key]) \/ f[key] = Null }
  IN [me EXCEPT !.f = f,
                !.cache = Override(fresh.cache, [key \in seeded |-> f[key]]),
                !.docRef = fresh.docRef,
                !.typed = fresh.typed]

(***************************************************************************)
(* State                                                                   *)
(***************************************************************************)
VARIABLES
  store,     \* the document store: path -> document, defined on the existing documents
  inst,      \* the live instances: name -> Instance
  task,      \* the save/update/delete calls: their position and what they did
  unit,      \* the atomic units (transactions, batches) of the scoped helpers
  cur,       \* the unit of the helper invoked last (0: none yet)
  nextAuto,  \* the number of auto-generated identity keys handed out
  nOps,      \* the number of calls issued so far
  built      \* the constructors that hold a built validation schema of their own

vars == << store, inst, task, unit, cur, nextAuto, nOps, built >>

Insts == {"i1", "i2", "i3"}
\* the call chains: "cb" is the chain the helper's callback runs in, "out" any
\* other chain; each awaits its calls, so it has one call in flight; task[c] is
\* the call chain c issued last
Tasks == {"cb", "out"}
Units == 1 .. MaxUnits

\* CollectionReference.doc(): the n-th auto-generated key
AutoId(n) ==
  CASE n = 0 -> "g1" [] n = 1 -> "g2" [] n = 2 -> "g3" [] n = 3 -> "g4"
    [] n = 4 -> "g5" [] OTHER -> "g6"

IdleTask ==
  [pc |-> "idle", op |-> "", i |-> "", ctx |-> 0,
   merge |-> FALSE, data |-> EmptyMap, path |-> NoPath, origId |-> NoId,
   ret |-> "", err |-> "", nBefore |-> 0, nAfter |-> 0, nWrites |-> 0, nEnq |-> 0,
   afterArg |-> NoId, issues |-> {},
   fields |-> {}, pending |-> EmptyMap, nFetch |-> 0, fetchFailed |-> {},
   nLoad |-> 0, result |-> NoInstance, errInfo |-> << >>, options |-> NoPopulate,
   answer |-> "", cond |-> NoCond, queryFn |-> NoCond, found |-> {},
   patch |-> EmptyMap, rows |-> << >>, got |-> EmptyMap, deep |-> {},
   sub |-> "", subs |-> << >>, snap |-> EmptyMap, results |-> EmptyMap]

NoUnit ==
  [kind |-> "", phase |-> "unused", queue |-> << >>, commits |-> 0, thrown |-> "",
   err |-> ""]

Running(t) ==
  task[t].pc \in {"hooked", "writing", "acked", "nacked", "reloading", "populating", "finding",
                  "querying"}
Finished(t) == task[t].pc \in {"done", "failed"}

(***************************************************************************)
(* Ambient transaction context (AsyncLocalStorage)                         *)
(***************************************************************************)
\* the helper's callback is executing (its unit was handed to transactionContext.run)
CallbackRunning == cur > 0 /\ unit[cur].phase = "running"

\* the callback is suspended in an await of one of its own calls
CallbackAwaiting == Running("cb")

\* a context kept in one slot shared by every call chain
getStoreShared(c) == IF CallbackRunning THEN cur ELSE 0

\* transactionContext.getStore() in call chain c: the unit, in the chain
\* transactionContext.run started for the helper's callback, and undefined (0)
\* in any other chain
getStore(c) == IF c = "cb" THEN cur ELSE 0

\* a type guard that recognises no handle
isNoHandle(u) == FALSE

\* isFirestoreTransaction(ctx) / isWriteBatch(ctx)
isFirestoreTransaction(u) == u > 0 /\ unit[u].kind = "tx"
isWriteBatch(u) == u > 0 /\ unit[u].kind = "batch"

IsUnitHandle(u) == isFirestoreTransaction(u) \/ isWriteBatch(u)

\* Transaction.set/update/delete and WriteBatch.set/update/delete: a unit whose
\* commit was called refuses the write
Refuses(u) == unit[u].phase \in {"committing", "committed", "commitFailed"}
Enqueued(u, w) == [unit EXCEPT ![u].queue = Append(@, w)]

(***************************************************************************)
(* Instance helpers                                                        *)
(***************************************************************************)
\* BaseModel._getDocRef: the cached reference when there is one (the key is
\* restored from it when the instance has none), else the document path
\* through the ownership chain, the identity key generated when the instance
\* has none
RECURSIVE getDocRef(_, _, _)
getDocRef(I, i, fresh) ==
  LET me == I[i]
      meta == SubModelMeta(me.model)
      id == IF me.id = NoId THEN fresh ELSE me.id
  IN IF me.docRef # NoPath THEN
       [ok |-> TRUE, path |-> me.docRef,
        id |-> IF me.id = NoId THEN me.docRef[Len(me.docRef)] ELSE me.id]
     ELSE IF meta.has THEN
       IF me.parent = "" THEN [ok |-> FALSE, path |-> NoPath, id |-> me.id]
       ELSE IF I[me.parent].id = NoId THEN [ok |-> FALSE, path |-> NoPath, id |-> me.id]
       ELSE LET up == getDocRef(I, me.parent, fresh)
            IN IF ~up.ok THEN [ok |-> FALSE, path |-> NoPath, id |-> me.id]
               ELSE [ok |-> TRUE, path |-> up.path \o << meta.subPath, id >>, id |-> id]
     ELSE IF getCollectionName(me.model) = "" THEN
            [ok |-> FALSE, path |-> NoPath, id |-> me.id]
     ELSE [ok |-> TRUE, path |-> << getCollectionName(me.model), id >>, id |-> id]

\* BaseModel._getDocRef, what it leaves on the instances: the key, and the
\* reference cached on the instance and on every owner it was resolved through
RECURSIVE withDocRefs(_, _, _)
withDocRefs(I, i, fresh) ==
  LET ref == getDocRef(I, i, fresh)
      J == IF SubModelMeta(I[i].model).has THEN withDocRefs(I, I[i].parent, fresh) ELSE I
  IN IF ~ref.ok THEN I
     ELSE IF I[i].docRef # NoPath THEN [I EXCEPT ![i].id = ref.id]
     ELSE [J EXCEPT ![i].id = ref.id, ![i].docRef = ref.path]

\* whether _getDocRef takes a new key from the store's generator
takesAutoId(me) == me.id = NoId /\ me.docRef = NoPath

\* save(): declared defaults for the unset (null or undefined) fields
IsUnset(f, key) == key \notin DOMAIN f \/ f[key] \in {Null, Undef}
applyDefaults(m, f) ==
  LET ts == { key \in TimestampDefaults(m) : IsUnset(f, key) }
      bs == { d \in BooleanDefaults(m) : IsUnset(f, d.prop) }
      withTs == Override(f, [key \in ts |-> Now])
  IN Override(withTs, [key \in { d.prop : d \in bs } |->
        Bool((CHOOSE d \in bs : d.prop = key).defaultValue)])

\* a cleaning that would keep a resolved instance given for a relation
cleanKeepsInstances(m, f, updateData, key) ==
  LET v == updateData[key]
      rel == key \in relationProperties(m)
  IN /\ ~(key = "id" \/ StartsWithUnderscore(key) \/ IsFunctionProp(f, key))
     /\ \/ IsFieldValue(v)
        \/ rel /\ (v = Null \/ IsRef(v) \/ IsInst(v))
        \/ ~rel /\ v = Null
        \/ ~rel /\ v # Undef

\* a pre-save hook that would leave the instance as it is
beforeSaveIdle(m, f) == f

\* beforeSave(): what the hook of a model does to the instance's fields.  Note
\* overrides it and counts its saves in c; the other models keep the empty
\* hook of BaseModel
beforeSave(m, f) ==
  IF m = "Note" /\ "c" \in DOMAIN f
    THEN Override(f, [key \in {"c"} |-> Num(f["c"].n + 1)])
    ELSE f

\* update(): the cleaned patch
cleanKeeps(m, f, updateData, key) ==
  LET v == updateData[key]
      rel == key \in relationProperties(m)
  IN /\ ~(key = "id" \/ StartsWithUnderscore(key) \/ IsFunctionProp(f, key))
     /\ \/ IsFieldValue(v)
        \/ rel /\ (v = Null \/ IsRef(v))
        \/ ~rel /\ v = Null
        \/ ~rel /\ v # Undef
cleanUpdateData(m, f, updateData) ==
  [key \in { k \in DOMAIN updateData : cleanKeeps(m, f, updateData, k) } |->
     IF updateData[key].k = "date" THEN Ts(updateData[key].n) ELSE updateData[key]]

\* a local state that would take every value of the patch, sentinels included
updateLocalFieldsAll(f, clean) == Override(f, clean)

\* a local state that would keep the cache entries of the relations written
updateLocalCacheKept(m, cache, clean) == cache

\* BaseModel._updateLocalState
LocalKeys(clean) == { key \in DOMAIN clean : ~IsFieldValue(clean[key]) \/ clean[key] = FvDelete }
updateLocalFields(f, clean) ==
  Override(f, [key \in LocalKeys(clean) |->
                 IF clean[key] = FvDelete THEN Undef ELSE clean[key]])
updateLocalCache(m, cache, clean) ==
  Restrict(cache, (DOMAIN cache) \ (LocalKeys(clean) \cap relationProperties(m)))


(***************************************************************************)
(* The calls: who may issue one, and how one dispatches its write          *)
(***************************************************************************)
\* chain t issues a call when its previous one has settled; the callback's
\* chain exists while the callback runs
MayIssue(t) ==
  /\ nOps < MaxOps
  /\ ~Running(t)
  /\ t = "cb" => CallbackRunning

Issued(t, op, i) == [IdleTask EXCEPT !.op = op, !.i = i, !.ctx = getStore(t)]

\* "if (currentContext) { currentContext.<op>(docRef, ...); return undefined }":
\* the write joins the unit and the call returns nothing
JoinsUnit(t, w) ==
  /\ unit' = IF IsUnitHandle(task[t].ctx) THEN Enqueued(task[t].ctx, w) ELSE unit
  /\ task' = [task EXCEPT ![t].pc = "done", ![t].ret = "undefined",
                          ![t].path = w.path, ![t].data = w.data,
                          ![t].nEnq = IF IsUnitHandle(task[t].ctx) THEN @ + 1 ELSE @]

\* the unit refuses the write: the call rejects
UnitThrows(t, w) ==
  /\ unit' = unit
  /\ task' = [task EXCEPT ![t].pc = "failed", ![t].err = "CommittedError",
                          ![t].path = w.path, ![t].data = w.data]

\* "else { await docRef.<op>(...) }": the write is sent to the store
SendsWrite(t, w) ==
  /\ unit' = unit
  /\ task' = [task EXCEPT ![t].pc = "writing", ![t].path = w.path,
                          ![t].data = w.data, ![t].nWrites = @ + 1]

Fails(t, err) == task' = [task EXCEPT ![t].pc = "failed", ![t].err = err]

(***************************************************************************)
(* BaseModel.save                                                          *)
(***************************************************************************)
\* up to "await this.beforeSave(options)"
SaveStart(t, i, merge) ==
  /\ MayIssue(t)
  /\ nOps' = nOps + 1
  /\ inst' = [inst EXCEPT
       ![i].f = beforeSave(inst[i].model, applyDefaults(inst[i].model, @))]
  /\ task' = [task EXCEPT ![t] =
       [Issued(t, "save", i) EXCEPT
          !.pc = "hooked", !.merge = merge, !.nBefore = 1]]
  /\ UNCHANGED << store, unit, cur, nextAuto >>
  /\ UNCHANGED built

\* map, validate, resolve the reference, enqueue or send.  The set of a
\* reference that carries the converter of the class (the instance was
\* returned by findById, or reloaded) passes the data through the converter,
\* whose toFirestore calls _toFirestore on the mapped data, a plain object:
\* TypeError, thrown by the set before anything is sent or enqueued
SaveDispatch(t) ==
  /\ task[t].pc = "hooked" /\ task[t].op = "save"
  /\ LET i == task[t].i
         me == inst[i]
         data == toFirestore(me.model, me.f, TRUE)
         ref == getDocRef(inst, i, AutoId(nextAuto))
         w == Write("set", ref.path, data, task[t].merge)
         shape == schema(built, me.model).of
     IN IF ~validate(shape, data) THEN
          /\ task' = [task EXCEPT ![t].pc = "failed", ![t].err = "ValidationError",
                                  ![t].issues = validationIssues(shape, data)]
          /\ UNCHANGED << store, inst, unit, cur, nextAuto, nOps >>
        ELSE IF ~ref.ok THEN
          /\ Fails(t, "Error")
          /\ UNCHANGED << store, inst, unit, cur, nextAuto, nOps >>
        ELSE
          /\ inst' = withDocRefs(inst, i, AutoId(nextAuto))
          /\ nextAuto' = IF takesAutoId(me) THEN nextAuto + 1 ELSE nextAuto
          /\ IF me.typed THEN Fails(t, "TypeError") /\ unit' = unit
             ELSE IF task[t].ctx # 0
               THEN IF Refuses(task[t].ctx) THEN UnitThrows(t, w) ELSE JoinsUnit(t, w)
               ELSE SendsWrite(t, w)
          /\ UNCHANGED << store, cur, nOps >>
  /\ built' = schema(built, inst[task[t].i].model).built

\* a save that would return the acknowledgement without calling afterSave
SaveSettleSkipsHook(t) ==
  /\ task[t].pc \in {"acked", "nacked"} /\ task[t].op = "save"
  /\ task[t].nAfter = 0
  /\ task' = IF task[t].pc = "acked"
               THEN [task EXCEPT ![t].pc = "done", ![t].ret = "ack"]
               ELSE [task EXCEPT ![t].pc = "failed", ![t].err = "StoreError"]
  /\ UNCHANGED << store, inst, unit, cur, nextAuto, nOps >>
  /\ UNCHANGED built

\* "await docRef.set(...)" has settled: afterSave(result) is called and
\* awaited when the store acknowledged, the error is rethrown when it did not
SaveSettle(t) ==
  /\ task[t].pc \in {"acked", "nacked"} /\ task[t].op = "save"
  /\ task[t].nAfter = 0
  /\ task' = IF task[t].pc = "acked"
               THEN [task EXCEPT ![t].nAfter = @ + 1]
               ELSE [task EXCEPT ![t].pc = "failed", ![t].err = "StoreError"]
  /\ UNCHANGED << store, inst, unit, cur, nextAuto, nOps >>
  /\ UNCHANGED built

(***************************************************************************)
(* BaseModel.update                                                        *)
(***************************************************************************)
\* an update that would go on with an empty cleaned patch
UpdateStartAnyway(t, i, updateData) ==
  /\ MayIssue(t)
  /\ nOps' = nOps + 1
  /\ LET me == inst[i]
         clean == cleanUpdateData(me.model, me.f, updateData)
         call == Issued(t, "update", i)
     IN task' = [task EXCEPT ![t] =
          IF hasNoId(me) THEN [call EXCEPT !.pc = "failed", !.err = "NoIdError"]
          ELSE [call EXCEPT !.pc = "hooked", !.data = clean, !.nBefore = 1,
                            !.patch = updateData]]
  /\ UNCHANGED << store, inst, unit, cur, nextAuto >>
  /\ UNCHANGED built

\* up to "await this.beforeUpdate(cleanUpdateData)"
UpdateStart(t, i, updateData) ==
  /\ MayIssue(t)
  /\ nOps' = nOps + 1
  /\ LET me == inst[i]
         clean == cleanUpdateData(me.model, me.f, updateData)
         call == Issued(t, "update", i)
     IN task' = [task EXCEPT ![t] =
          IF hasNoId(me) THEN [call EXCEPT !.pc = "failed", !.err = "NoIdError"]
          ELSE IF DOMAIN clean = {} THEN
            [call EXCEPT !.pc = "done", !.patch = updateData,
                         !.ret = IF call.ctx # 0 THEN "undefined" ELSE "emptyAck"]
          ELSE [call EXCEPT !.pc = "hooked", !.data = clean, !.nBefore = 1,
                            !.patch = updateData]]
  /\ UNCHANGED << store, inst, unit, cur, nextAuto >>
  /\ UNCHANGED built

UpdateDispatch(t) ==
  /\ task[t].pc = "hooked" /\ task[t].op = "update"
  /\ LET i == task[t].i
         me == inst[i]
         ref == getDocRef(inst, i, AutoId(nextAuto))
         w == Write("update", ref.path, task[t].data, FALSE)
     IN IF ~ref.ok THEN
          /\ Fails(t, "Error")
          /\ UNCHANGED << store, inst, unit, cur, nextAuto, nOps >>
        ELSE
          /\ nextAuto' = IF takesAutoId(me) THEN nextAuto + 1 ELSE nextAuto
          /\ IF task[t].ctx # 0
               THEN IF Refuses(task[t].ctx) \/ ~Serializable(w.data)
                      THEN /\ UnitThrows(t, w)
                           /\ inst' = withDocRefs(inst, i, AutoId(nextAuto))
                      ELSE /\ JoinsUnit(t, w)
                           /\ inst' = [withDocRefs(inst, i, AutoId(nextAuto)) EXCEPT
                                ![i].f = updateLocalFields(@, w.data),
                                ![i].cache = updateLocalCache(me.model, @, w.data)]
               ELSE /\ SendsWrite(t, w)
                    /\ inst' = withDocRefs(inst, i, AutoId(nextAuto))
          /\ UNCHANGED << store, cur, nOps >>
  /\ UNCHANGED built

\* an update that would bring the instance up to date before the store answered
UpdateSettleOptimistic(t) ==
  /\ task[t].pc \in {"acked", "nacked"} /\ task[t].op = "update"
  /\ task[t].nAfter = 0
  /\ LET i == task[t].i IN
     /\ inst' = [inst EXCEPT
          ![i].f = updateLocalFields(@, task[t].data),
          ![i].cache = updateLocalCache(inst[i].model, @, task[t].data)]
     /\ IF task[t].pc = "acked"
          THEN task' = [task EXCEPT ![t].nAfter = @ + 1]
          ELSE Fails(t, "StoreError")
  /\ UNCHANGED << store, unit, cur, nextAuto, nOps >>
  /\ UNCHANGED built

\* "await docRef.update(...)" has settled: _updateLocalState, then
\* afterUpdate(result, data) is called and awaited; the error is rethrown
\* when the store did not acknowledge
UpdateSettle(t) ==
  /\ task[t].pc \in {"acked", "nacked"} /\ task[t].op = "update"
  /\ task[t].nAfter = 0
  /\ LET i == task[t].i IN
     IF task[t].pc = "acked" THEN
       /\ inst' = [inst EXCEPT
            ![i].f = updateLocalFields(@, task[t].data),
            ![i].cache = updateLocalCache(inst[i].model, @, task[t].data)]
       /\ task' = [task EXCEPT ![t].nAfter = @ + 1]
     ELSE
       /\ inst' = inst
       /\ Fails(t, "StoreError")
  /\ UNCHANGED << store, unit, cur, nextAuto, nOps >>
  /\ UNCHANGED built

(***************************************************************************)
(* BaseModel.delete                                                        *)
(***************************************************************************)
\* a delete that would keep the relation cache
keyClearedAfterDelete(me) == [me EXCEPT !.id = NoId]

\* "this.id = undefined; this._populatedRelations = {}"
clearedAfterDelete(me) == [me EXCEPT !.id = NoId, !.cache = EmptyMap]

\* up to "await this.beforeDelete()"
DeleteStart(t, i) ==
  /\ MayIssue(t)
  /\ nOps' = nOps + 1
  /\ LET call == Issued(t, "delete", i)
     IN task' = [task EXCEPT ![t] =
          IF hasNoId(inst[i]) THEN [call EXCEPT !.pc = "failed", !.err = "NoIdError"]
          ELSE [call EXCEPT !.pc = "hooked", !.origId = inst[i].id, !.nBefore = 1]]
  /\ UNCHANGED << store, inst, unit, cur, nextAuto >>
  /\ UNCHANGED built

\* a delete that would leave the key and the cache alone until the unit commits
DeleteDispatchDeferred(t) ==
  /\ task[t].pc = "hooked" /\ task[t].op = "delete"
  /\ LET i == task[t].i
         me == inst[i]
         ref == getDocRef(inst, i, AutoId(nextAuto))
         w == Write("delete", ref.path, EmptyMap, FALSE)
     IN IF ~ref.ok THEN
          /\ Fails(t, "Error")
          /\ UNCHANGED << store, inst, unit, cur, nextAuto, nOps >>
        ELSE
          /\ nextAuto' = IF takesAutoId(me) THEN nextAuto + 1 ELSE nextAuto
          /\ IF task[t].ctx # 0
               THEN IF Refuses(task[t].ctx)
                      THEN /\ UnitThrows(t, w)
                           /\ inst' = withDocRefs(inst, i, AutoId(nextAuto))
                      ELSE /\ JoinsUnit(t, w)
                           /\ inst' = withDocRefs(inst, i, AutoId(nextAuto))
               ELSE /\ SendsWrite(t, w)
                    /\ inst' = withDocRefs(inst, i, AutoId(nextAuto))
          /\ UNCHANGED << store, cur, nOps >>
  /\ UNCHANGED built

DeleteDispatch(t) ==
  /\ task[t].pc = "hooked" /\ task[t].op = "delete"
  /\ LET i == task[t].i
         me == inst[i]
         ref == getDocRef(inst, i, AutoId(nextAuto))
         w == Write("delete", ref.path, EmptyMap, FALSE)
     IN IF ~ref.ok THEN
          /\ Fails(t, "Error")
          /\ UNCHANGED << store, inst, unit, cur, nextAuto, nOps >>
        ELSE
          /\ nextAuto' = IF takesAutoId(me) THEN nextAuto + 1 ELSE nextAuto
          /\ IF task[t].ctx # 0
               THEN IF Refuses(task[t].ctx)
                      THEN /\ UnitThrows(t, w)
                           /\ inst' = withDocRefs(inst, i, AutoId(nextAuto))
                      ELSE /\ JoinsUnit(t, w)
                           /\ inst' = [withDocRefs(inst, i, AutoId(nextAuto)) EXCEPT
                                ![i] = clearedAfterDelete(@)]
               ELSE /\ SendsWrite(t, w)
                    /\ inst' = withDocRefs(inst, i, AutoId(nextAuto))
          /\ UNCHANGED << store, cur, nOps >>
  /\ UNCHANGED built

\* "await docRef.delete()" has settled: key and cache are cleared, then
\* afterDelete(result, originalId) is called and awaited; the error is
\* rethrown when the store did not acknowledge
DeleteSettle(t) ==
  /\ task[t].pc \in {"acked", "nacked"} /\ task[t].op = "delete"
  /\ task[t].nAfter = 0
  /\ LET i == task[t].i IN
     IF task[t].pc = "acked" THEN
       /\ inst' = [inst EXCEPT ![i] = clearedAfterDelete(@)]
       /\ task' = [task EXCEPT ![t].nAfter = @ + 1, ![t].afterArg = task[t].origId]
     ELSE
       /\ inst' = inst
       /\ Fails(t, "StoreError")
  /\ UNCHANGED << store, unit, cur, nextAuto, nOps >>
  /\ UNCHANGED built

(***************************************************************************)
(* save, update, delete: "await this.after<Op>(result, ...); return result" *)
(***************************************************************************)
\* the promise of the after-hook resolves: the call returns the store's
\* acknowledgement
AfterHookResolves(t) ==
  /\ task[t].pc = "acked" /\ task[t].op \in {"save", "update", "delete"}
  /\ task[t].nAfter = 1
  /\ task' = [task EXCEPT ![t].pc = "done", ![t].ret = "ack"]
  /\ UNCHANGED << store, inst, unit, cur, nextAuto, nOps >>
  /\ UNCHANGED built

(***************************************************************************)
(* BaseModel.reload                                                        *)
(***************************************************************************)
\* up to "await constructor.findById(this.id, {populate})"
ReloadStart(t, i, options) ==
  /\ MayIssue(t)
  /\ nOps' = nOps + 1
  /\ LET call == Issued(t, "reload", i)
     IN task' = [task EXCEPT ![t] =
          IF hasNoId(inst[i]) THEN [call EXCEPT !.pc = "failed", !.err = "NoIdError"]
          ELSE [call EXCEPT !.pc = "reloading", !.origId = inst[i].id,
                            !.options = options, !.nFetch = 1]]
  /\ UNCHANGED << store, inst, unit, cur, nextAuto >>
  /\ UNCHANGED built

(***************************************************************************)
(* BaseModel.populate as a call: the synchronous pass over the requested   *)
(* fields, one fetch in flight per pointer, "await Promise.all(...)"       *)
(***************************************************************************)
\* a chain issues a read when its previous call has settled
MayRead(t) ==
  /\ ~Running(t)
  /\ t = "cb" => CallbackRunning

\* a cache that is never consulted
isCachedNever(me, fieldName) == FALSE

\* a cache check that would take a cached null for no entry
isCachedTruthy(me, fieldName) ==
  fieldName \in DOMAIN me.cache /\ me.cache[fieldName] # Null

\* this._populatedRelations.hasOwnProperty(fieldName)
isCached(me, fieldName) == fieldName \in DOMAIN me.cache

\* a fetch whose failure would leave the pointer in place
fetchAnswerKeepsRef(s, related, value, outcome) ==
  IF outcome = "ok" THEN populateFetch(s, related, value) ELSE value

\* the try / catch around one fetch: the related instance, null when the
\* document is missing, null when the fetch threw
fetchAnswer(s, related, value, outcome) ==
  IF outcome = "ok" THEN populateFetch(s, related, value) ELSE Null

\* the synchronous pass of populate(fieldNames) on instance me: cached fields
\* are set from the cache, fields holding an instance, null or undefined seed
\* the cache, pointers are to be fetched (pending: field -> pointer)
populatePass(me, fieldNames) ==
  LET rels == fieldNames \cap relationProperties(me.model)
      cached == { key \in rels : isCached(me, key) }
      toFetch == { key \in rels \ cached : IsRef(Get(me.f, key)) }
      toSeed == { key \in rels \ cached :
                    IsInst(Get(me.f, key)) \/ Get(me.f, key) \in {Null, Undef} }
  IN [me |-> [me EXCEPT
                !.f = Override(@, [key \in cached |-> me.cache[key]]),
                !.cache = Override(@, [key \in toSeed |->
                            IF IsInst(Get(me.f, key)) THEN me.f[key] ELSE Null])],
      pending |-> [key \in toFetch |-> me.f[key]]]

\* populate(fieldNames) called by user code on instance i, up to
\* "await Promise.all(populationPromises)"
PopulateStart(t, i, fieldNames) ==
  /\ MayRead(t)
  /\ LET pass == populatePass(inst[i], fieldNames)
     IN /\ inst' = [inst EXCEPT ![i] = pass.me]
        /\ task' = [task EXCEPT ![t] =
             [Issued(t, "populate", i) EXCEPT
                !.pc = "populating", !.fields = fieldNames, !.pending = pass.pending,
                !.data = pass.pending, !.nFetch = Cardinality(DOMAIN pass.pending)]]
  /\ UNCHANGED << store, unit, cur, nextAuto, nOps >>
  /\ UNCHANGED built

\* the class the read of chain t is made on: the class of the instance
\* populate or reload was called on, the class a static call was made on
Callee(t) ==
  IF task[t].op \in {"populate", "reload"} THEN inst[task[t].i].model ELSE task[t].i

\* the instance the populate of chain t works on: the one populate was called
\* on, or the one findById or findAll has mapped and not returned yet
Populated(t) == IF task[t].op = "populate" THEN inst[task[t].i] ELSE task[t].result

\* findById returns v (NoInstance: null) or throws err: the call c as it ends
\* then, made by user code, or by reload, which throws NotFoundError for null
\* and otherwise returns the instance it was called on
findByIdReturns(c, err, v) ==
  IF err # "" THEN [c EXCEPT !.pc = "failed", !.err = err]
  ELSE IF c.op = "reload" THEN
    IF v = NoInstance THEN [c EXCEPT !.pc = "failed", !.err = "NotFoundError"]
    ELSE [c EXCEPT !.pc = "done", !.ret = "this", !.result = v]
  ELSE [c EXCEPT !.pc = "done", !.result = v,
                 !.ret = IF v = NoInstance THEN "null" ELSE "instance"]

\* the call c of findById, reload, findAll or findWhere on class m, from the
\* point where it is not awaiting an answer up to its next await, or its end.
\* resolveRows is "for (const doc of snapshot.docs)" of findAll at the next
\* document (in the order the query yields them, by key): doc.data() maps it
\* (afterLoad), the synchronous pass of the populate is made; resolveSubs is the loop over subsToPopulate once the
\* populate has returned: findById skips a name without a declaration,
\* findAll calls instance.subcollection, which throws for it; the query of a
\* declared name is awaited; with no name left findById returns the instance
\* and findAll pushes it to the results and goes to the next document
RECURSIVE resolveRows(_, _), resolveSubs(_, _)
resolveRows(c, m) ==
  LET left == c.found \ DOMAIN c.results
      docs == SelectSeq(<< "d1", "d9", "e1", "e2", "g1", "g2", "g3", "g4", "g5", "g6",
                           "k1", "k2", "k3", "k9", "t1", "t2" >>, LAMBDA x : x \in left)
      id == docs[1]
      fieldNames == IF c.options.given THEN c.options.fieldNames ELSE eagerRels(m)
      pass == populatePass(c.snap[id], fieldNames)
      row == [c EXCEPT !.origId = id, !.result = pass.me, !.fields = fieldNames,
                       !.pending = pass.pending, !.data = pass.pending,
                       !.nFetch = @ + Cardinality(DOMAIN pass.pending),
                       !.nLoad = @ + 1, !.subs = subsToPopulate(m, c.options)]
  IN IF left = {} THEN [c EXCEPT !.pc = "done", !.ret = "results"]
     ELSE IF DOMAIN pass.pending # {} THEN row
     ELSE resolveSubs(row, m)

resolveSubs(c, m) ==
  LET many == c.op \in {"findAll", "findWhere"}
      propName == Head(c.subs)
  IN IF c.subs = << >> THEN
       IF many
         THEN resolveRows([c EXCEPT !.results = Override(@, [id \in {c.origId} |-> c.result])], m)
         ELSE findByIdReturns(c, "", c.result)
     ELSE IF propName \notin eagerSubs(m) THEN
       IF many THEN [c EXCEPT !.pc = "failed", !.err = "Error"]
       ELSE resolveSubs([c EXCEPT !.subs = Tail(@)], m)
     ELSE [c EXCEPT !.sub = propName, !.subs = Tail(@), !.nFetch = @ + 1]

\* the read of chain t goes on as c: a reload whose findById has returned
\* throws NotFoundError for null before anything is assigned, and otherwise
\* copies the fresh instance onto the instance it was called on
ReadProceeds(t, c) ==
  IF c.op = "reload" /\ c.pc = "done" THEN
    /\ inst' = [inst EXCEPT ![c.i] = reloaded(@, c.result)]
    /\ task' = [task EXCEPT ![t] = c]
  ELSE IF c.op = "reload" /\ c.err = "NotFoundError" THEN
    /\ inst' = [inst EXCEPT ![c.i] = atNotFound(@)]
    /\ task' = [task EXCEPT ![t] =
         [c EXCEPT !.errInfo = << inst[c.i].model, inst[c.i].id >>]]
  ELSE
    /\ inst' = inst
    /\ task' = [task EXCEPT ![t] = c]

\* the fetch of one field is answered: the field is set, unless the related
\* document has eager relations of its own to be fetched first; with the
\* last field set, the populate of a findById or findAll returns
PopulateFetched(t, fieldName, outcome) ==
  /\ task[t].pc \in {"populating", "finding", "reloading"}
  /\ fieldName \in DOMAIN task[t].pending
  /\ \A d \in task[t].deep : d.field # fieldName
  /\ LET i == task[t].i
         me == Populated(t)
         related == RelatedModelOf(me.model, fieldName)
         value == task[t].pending[fieldName]
         relatedInstance == fetchAnswer(store, related, value, outcome)
         below == eagerPointers(store, related, value, outcome)
         calls == afterLoadCalls(store, Callee(t), related, value, outcome)
         set == [me EXCEPT
                   !.f = Override(@, [key \in {fieldName} |-> relatedInstance]),
                   !.cache = Override(@, [key \in {fieldName} |-> relatedInstance])]
         c == [task[t] EXCEPT
                 !.result = IF task[t].op = "populate" THEN @ ELSE set,
                 !.pending = Restrict(@, (DOMAIN @) \ {fieldName}),
                 !.nLoad = @ + calls,
                 !.fetchFailed = IF outcome = "ok" THEN @ ELSE @ \cup {fieldName}]
     IN IF below # {} THEN
          /\ inst' = inst
          /\ task' = [task EXCEPT
               ![t].got = Override(@, [key \in {fieldName} |-> relatedInstance]),
               ![t].deep = { [field |-> fieldName, related |-> b.related,
                              value |-> b.value, level |-> 2] : b \in below },
               ![t].nLoad = @ + calls,
               ![t].nFetch = @ + Cardinality(below)]
        ELSE IF task[t].op = "populate" THEN
          /\ inst' = [inst EXCEPT ![i] = set]
          /\ task' = [task EXCEPT ![t] = c]
        ELSE
          ReadProceeds(t, IF DOMAIN c.pending = {} THEN resolveSubs(c, Callee(t)) ELSE c)
  /\ UNCHANGED << store, unit, cur, nextAuto, nOps >>
  /\ UNCHANGED built

\* the fetch d of an eager relation of a related document is answered: the
\* document found may have eager relations in its turn; when none is left to
\* fetch for the field, the findById of the field returns and the field is set
EagerFetched(t, d, outcome) ==
  /\ task[t].pc \in {"populating", "finding", "reloading"}
  /\ d \in task[t].deep
  /\ LET i == task[t].i
         me == Populated(t)
         below == eagerPointers(store, d.related, d.value, outcome)
         deeper == { [field |-> d.field, related |-> b.related,
                      value |-> b.value, level |-> d.level + 1] : b \in below }
         left == (task[t].deep \ {d}) \cup deeper
         calls == afterLoadCalls(store, Callee(t), d.related, d.value, outcome)
         set == [me EXCEPT
                   !.f = Override(@, [key \in {d.field} |-> task[t].got[d.field]]),
                   !.cache = Override(@, [key \in {d.field} |-> task[t].got[d.field]])]
         c == [task[t] EXCEPT
                 !.result = IF task[t].op = "populate" THEN @ ELSE set,
                 !.deep = left,
                 !.nLoad = @ + calls,
                 !.pending = Restrict(@, (DOMAIN @) \ {d.field})]
     IN /\ below # {} => d.level < MaxDepth
        /\ IF \E x \in left : x.field = d.field THEN
             /\ inst' = inst
             /\ task' = [task EXCEPT ![t].deep = left,
                                     ![t].nLoad = @ + calls,
                                     ![t].nFetch = @ + Cardinality(below)]
           ELSE IF task[t].op = "populate" THEN
             /\ inst' = [inst EXCEPT ![i] = set]
             /\ task' = [task EXCEPT ![t] = c]
           ELSE
             ReadProceeds(t, IF DOMAIN c.pending = {} THEN resolveSubs(c, Callee(t)) ELSE c)
  /\ UNCHANGED << store, unit, cur, nextAuto, nOps >>
  /\ UNCHANGED built

\* "await Promise.all(populationPromises)" returns to user code
PopulateSettle(t) ==
  /\ task[t].pc = "populating"
  /\ DOMAIN task[t].pending = {}
  /\ task' = [task EXCEPT ![t].pc = "done", ![t].ret = "undefined"]
  /\ UNCHANGED << store, inst, unit, cur, nextAuto, nOps >>
  /\ UNCHANGED built

\* user code assigns a pointer to a relation field of an instance
AssignField(t, i, key, v) ==
  /\ MayRead(t)
  /\ key \in DOMAIN inst[i].f
  /\ inst[i].f[key] # v
  /\ inst' = [inst EXCEPT ![i].f = Override(@, [k \in {key} |-> v])]
  /\ UNCHANGED << store, task, unit, cur, nextAuto, nOps >>
  /\ UNCHANGED built

\* user code assigns the identity key of an instance
AssignKey(t, i, id) ==
  /\ MayRead(t)
  /\ inst[i].id # id
  /\ inst' = [inst EXCEPT ![i].id = id]
  /\ UNCHANGED << store, task, unit, cur, nextAuto, nOps >>
  /\ UNCHANGED built

\* user code reads the getter docRef of an instance: _getDocRef resolves the
\* reference (the key generated when there is none) and caches it on the
\* instance and on the owners it was resolved through, or throws
DocRefGet(t, i) ==
  /\ MayRead(t)
  /\ inst[i] # NoInstance
  /\ LET ref == getDocRef(inst, i, AutoId(nextAuto))
     IN IF ~ref.ok THEN UNCHANGED << inst, nextAuto >>
        ELSE /\ inst' = withDocRefs(inst, i, AutoId(nextAuto))
             /\ nextAuto' = IF takesAutoId(inst[i]) THEN nextAuto + 1 ELSE nextAuto
  /\ UNCHANGED << store, task, unit, cur, nOps >>
  /\ UNCHANGED built

\* user code reads the getter collectionRef: "this.docRef.parent"
CollectionRefGet(t, i) == DocRefGet(t, i)

\* user code reads the static getter schema of the class m: the schema found
\* along the constructor chain, else one built from m's own declarations and
\* kept on m
SchemaGet(t, m) ==
  /\ MayRead(t)
  /\ built' = schema(built, m).built
  /\ UNCHANGED << store, inst, task, unit, cur, nextAuto, nOps >>

\* user code calls validate() on an instance: the schema of its class is
\* read (and built, see SchemaGet), the mapped instance is parsed, and the
\* call returns or throws ValidationError
ValidateCall(t, i) ==
  /\ inst[i] # NoInstance
  /\ SchemaGet(t, inst[i].model)

(***************************************************************************)
(* BaseModel.findById as a call, of user code or of reload                 *)
(***************************************************************************)
\* up to "await docRef.get()"; the call is made on the class m
FindByIdStart(t, m, id, options) ==
  /\ MayRead(t)
  /\ task' = [task EXCEPT ![t] =
       [Issued(t, "findById", m) EXCEPT
          !.pc = "finding", !.origId = id, !.options = options, !.nFetch = 1,
          !.path = << getCollectionName(m), id >>]]
  /\ UNCHANGED << store, inst, unit, cur, nextAuto, nOps >>
  /\ UNCHANGED built

\* "const docSnap = await docRef.get()" is answered: an error of code 5 makes
\* findById return null, another error is thrown; a missing document is
\* null; a document found is mapped (twice, see findByIdWith), the
\* synchronous pass of the populate of the requested relations, or else of
\* the eager ones, is made on the instance, and the call goes on to its next
\* await
FindByIdSettle(t, outcome) ==
  /\ task[t].pc \in {"finding", "reloading"}
  /\ task[t].op \in {"findById", "reload"}
  /\ task[t].answer = ""
  /\ LET m == Callee(t)
         instance == fromFirestore(m, GetDocTyped(store, << getCollectionName(m),
                                                            task[t].origId >>))
         options == task[t].options
         fieldNames == IF options.given THEN options.fieldNames ELSE eagerRels(m)
         pass == populatePass(instance, fieldNames)
         c == [task[t] EXCEPT !.answer = outcome]
         found == [c EXCEPT !.result = pass.me, !.fields = fieldNames,
                            !.pending = pass.pending, !.data = pass.pending,
                            !.nFetch = @ + Cardinality(DOMAIN pass.pending),
                            !.subs = subsToPopulate(m, options),
                            !.nLoad = 2]
     IN IF outcome # "ok" THEN
          ReadProceeds(t, findByIdReturns(c, IF isNotFoundCode(outcome) THEN ""
                                             ELSE "StoreError", NoInstance))
        ELSE IF instance = NoInstance THEN ReadProceeds(t, findByIdReturns(c, "", NoInstance))
        ELSE ReadProceeds(t, IF DOMAIN found.pending = {} THEN resolveSubs(found, m)
                             ELSE found)
  /\ UNCHANGED << store, unit, cur, nextAuto, nOps >>
  /\ UNCHANGED built

\* the query of "await instance.subcollection(propName)" in findById or
\* findAll is answered: the rows are assigned to the property and the call
\* goes on; an error is caught by findById, which returns null for code 5
\* and throws any other, and is thrown by findAll
FindByIdAttached(t, outcome) ==
  /\ task[t].pc \in {"finding", "reloading"}
  /\ task[t].sub # ""
  /\ LET c == [task[t] EXCEPT !.sub = ""]
         attached == [c EXCEPT !.result = attachSubs(store, @, {task[t].sub})]
     IN IF outcome = "ok" THEN ReadProceeds(t, resolveSubs(attached, Callee(t)))
        ELSE IF task[t].op \in {"findAll", "findWhere"} THEN
          ReadProceeds(t, [c EXCEPT !.pc = "failed", !.err = "StoreError"])
        ELSE
          ReadProceeds(t, findByIdReturns(c, IF isNotFoundCode(outcome) THEN ""
                                             ELSE "StoreError", NoInstance))
  /\ UNCHANGED << store, unit, cur, nextAuto, nOps >>
  /\ UNCHANGED built

(***************************************************************************)
(* BaseModel.subcollection as a call                                       *)
(***************************************************************************)
\* up to "await query.get()": the declaration is looked up, the reference of
\* the instance is resolved (and cached, a key generated if there is none)
SubcollectionStart(t, i, prop, queryFn) ==
  /\ MayRead(t)
  /\ LET declared == \E x \in SubCollectionOwn(inst[i].model) : x.propertyName = prop
         ref == getDocRef(inst, i, AutoId(nextAuto))
         I == withDocRefs(inst, i, AutoId(nextAuto))
         call == [Issued(t, "subcollection", i) EXCEPT !.queryFn = queryFn, !.afterArg = prop]
     IN IF ~declared \/ ~ref.ok THEN
          /\ task' = [task EXCEPT ![t] = [call EXCEPT !.pc = "failed", !.err = "Error"]]
          /\ UNCHANGED << inst, nextAuto >>
        ELSE
          /\ inst' = I
          /\ nextAuto' = IF takesAutoId(inst[i]) THEN nextAuto + 1 ELSE nextAuto
          /\ task' = [task EXCEPT ![t] =
               [call EXCEPT !.pc = "querying", !.nFetch = 1, !.path = ref.path]]
  /\ UNCHANGED << store, unit, cur, nOps >>
  /\ UNCHANGED built

\* the query is answered: the rows are returned, or the error is thrown
SubcollectionAnswered(t, outcome) ==
  /\ task[t].pc = "querying"
  /\ task' = [task EXCEPT ![t] =
       IF outcome # "ok" THEN [@ EXCEPT !.pc = "failed", !.err = "StoreError", !.answer = outcome]
       ELSE [@ EXCEPT !.pc = "done", !.ret = "results", !.answer = outcome,
                      !.rows = subcollection(store, inst, task[t].i, task[t].afterArg,
                                             task[t].queryFn).rows]]
  /\ UNCHANGED << store, inst, unit, cur, nextAuto, nOps >>
  /\ UNCHANGED built

(***************************************************************************)
(* BaseModel.findAll and BaseModel.findWhere as calls                      *)
(***************************************************************************)
\* findAll(options) on class m, up to "await query.get()"
FindAllStart(t, m, queryFn, options) ==
  /\ MayRead(t)
  /\ task' = [task EXCEPT ![t] =
       [Issued(t, "findAll", m) EXCEPT
          !.pc = "finding", !.queryFn = queryFn, !.options = options, !.nFetch = 1]]
  /\ UNCHANGED << store, inst, unit, cur, nextAuto, nOps, built >>

\* findWhere(field, op, value, {queryFn}) on class m, up to the
\* "await query.get()" of the findAll it calls
FindWhereStart(t, m, c, queryFn) ==
  /\ MayRead(t)
  /\ task' = [task EXCEPT ![t] =
       [Issued(t, "findWhere", m) EXCEPT
          !.pc = "finding", !.cond = c, !.queryFn = queryFn, !.nFetch = 1]]
  /\ UNCHANGED << store, inst, unit, cur, nextAuto, nOps >>
  /\ UNCHANGED built

\* the query is answered: an error is thrown; the documents selected are
\* resolved one after the other, up to the first await
FindAllAnswered(t, outcome) ==
  /\ task[t].pc = "finding"
  /\ task[t].op \in {"findAll", "findWhere"}
  /\ task[t].answer = ""
  /\ LET m == task[t].i
         keys == IF task[t].op = "findWhere"
                   THEN findWhere(store, m, task[t].cond, [queryFn |-> task[t].queryFn])
                   ELSE findAll(store, m, task[t].queryFn)
         c == [task[t] EXCEPT !.answer = outcome]
         snapshot == [id \in keys |->
                        fromFirestore(m, GetDoc(store, << getCollectionName(m), id >>))]
     IN IF outcome # "ok" THEN
          ReadProceeds(t, [c EXCEPT !.pc = "failed", !.err = "StoreError"])
        ELSE
          ReadProceeds(t, resolveRows([c EXCEPT !.found = keys, !.snap = snapshot], m))
  /\ UNCHANGED << store, unit, cur, nextAuto, nOps >>
  /\ UNCHANGED built

(***************************************************************************)
(* The store answers a direct write                                        *)
(***************************************************************************)
WriteOf(t) ==
  Write(CASE task[t].op = "save" -> "set" [] task[t].op = "update" -> "update"
          [] OTHER -> "delete",
        task[t].path, task[t].data, task[t].merge)

StoreApply(t) ==
  /\ task[t].pc = "writing"
  /\ IF WriteOk(store, WriteOf(t))
       THEN /\ store' = ApplyWrite(store, WriteOf(t))
            /\ task' = [task EXCEPT ![t].pc = "acked"]
       ELSE /\ store' = store
            /\ task' = [task EXCEPT ![t].pc = "nacked"]
  /\ UNCHANGED << inst, unit, cur, nextAuto, nOps >>
  /\ UNCHANGED built

\* the store rejects a direct write it could have applied (network,
\* permission, quota): the promise of docRef.<op>(...) rejects
StoreRefuses(t) ==
  /\ task[t].pc = "writing"
  /\ task' = [task EXCEPT ![t].pc = "nacked"]
  /\ UNCHANGED << store, inst, unit, cur, nextAuto, nOps >>
  /\ UNCHANGED built

(***************************************************************************)
(* runInTransaction / runInBatch                                           *)
(***************************************************************************)
NoHelperActive ==
  IF cur = 0 THEN TRUE ELSE unit[cur].phase \in {"committed", "commitFailed", "rejected"}

\* db.runTransaction(async (transaction) => transactionContext.run(transaction, ...))
\* and db.batch(); transactionContext.run(batch, ...): the callback starts
HelperBegin(kind) ==
  /\ cur < MaxUnits
  /\ NoHelperActive
  /\ cur' = cur + 1
  /\ unit' = [unit EXCEPT ![cur + 1] = [NoUnit EXCEPT !.kind = kind, !.phase = "running"]]
  /\ UNCHANGED << store, inst, task, nextAuto, nOps >>
  /\ UNCHANGED built

runInTransactionBegin == HelperBegin("tx")
runInBatchBegin == HelperBegin("batch")

\* the callback returns (its promise resolves)
CallbackResolves ==
  /\ CallbackRunning
  /\ ~CallbackAwaiting
  /\ unit' = [unit EXCEPT ![cur].phase = "cbResolved"]
  /\ UNCHANGED << store, inst, task, cur, nextAuto, nOps >>
  /\ UNCHANGED built

\* the callback returns without awaiting the call it started last, if any
CallbackReturns ==
  /\ CallbackRunning
  /\ unit' = [unit EXCEPT ![cur].phase = "cbResolved"]
  /\ UNCHANGED << store, inst, task, cur, nextAuto, nOps >>
  /\ UNCHANGED built

\* the errors the callback can throw: its own, or that of a call it awaited
CallbackErrors ==
  {"UserError"} \cup
  { task[t].err : t \in { u \in {"cb"} : task[u].pc = "failed" /\ task[u].ctx = cur } }

\* a helper that would wrap whatever the callback threw in an error of its own
RethrownWrapped(err) == "HelperError"

\* the helper's rejection when the callback throws err: runInBatch's catch
\* rethrows it without committing, the transaction is rolled back and
\* runTransaction rejects with it
Rethrown(err) == err

CallbackThrows(err) ==
  /\ CallbackRunning
  /\ ~CallbackAwaiting
  /\ unit' = [unit EXCEPT ![cur].phase = "rejected", ![cur].thrown = err,
                          ![cur].err = Rethrown(err)]
  /\ UNCHANGED << store, inst, task, cur, nextAuto, nOps >>
  /\ UNCHANGED built

\* a helper that would commit in a finally clause, after a throw as well
MayCommitInFinally(u) == unit[u].phase \in {"cbResolved", "rejected"}

\* commit is reached when "await transactionContext.run(...)" returned normally,
\* and runTransaction commits when its update function resolved
MayCommit(u) == unit[u].phase = "cbResolved"

\* "await batch.commit()" after the callback, and the commit runTransaction
\* performs once its update function has resolved
CommitCalled ==
  /\ cur > 0
  /\ MayCommit(cur)
  /\ unit' = [unit EXCEPT ![cur].phase = "committing", ![cur].commits = @ + 1]
  /\ UNCHANGED << store, inst, task, cur, nextAuto, nOps >>
  /\ UNCHANGED built

\* the store applies the unit's writes atomically, or none of them
CommitApplied ==
  /\ cur > 0
  /\ unit[cur].phase = "committing"
  /\ LET r == ApplyAll(store, unit[cur].queue)
     IN IF r.ok
          THEN /\ store' = r.s
               /\ unit' = [unit EXCEPT ![cur].phase = "committed"]
          ELSE /\ store' = store
               /\ unit' = [unit EXCEPT ![cur].phase = "commitFailed",
                                       ![cur].err = "StoreError"]
  /\ UNCHANGED << inst, task, cur, nextAuto, nOps >>
  /\ UNCHANGED built

(***************************************************************************)
(* The engine under concurrent call chains and the scoped helpers          *)
(***************************************************************************)
User(id, f) == Instance("User", id, f, EmptyMap, "")
DeptD1 == << "departments", "d1" >>

UserK1 == << "users", "k1" >>
UserK2 == << "users", "k2" >>

\* the documents present at the start
InitStore ==
  [p \in { DeptD1, UserK1, UserK2 } |->
     CASE p = DeptD1 -> [n |-> Num(1)]
       [] p = UserK1 -> [a |-> Num(1), b |-> Num(2)]
       [] OTHER -> [a |-> Num(1), r |-> Ref(DeptD1)]]

\* the instance of users/k2 as a row of User.findAll, after populate("r")
PopulatedK2 ==
  LET d == InstV("Dept", "d1", DeptD1)
  IN [Instance("User", "k2", [a |-> Num(1), r |-> d], [r |-> d], "")
        EXCEPT !.docRef = UserK2]

\* i1: loaded from users/k1, or new (valid, or with a value its shape rejects)
InitI1 == { User("k1", [a |-> Num(1), b |-> Num(2)]),
            User(NoId, [a |-> Num(1), b |-> Num(2)]),
            User(NoId, [a |-> Num(999)]) }
\* i2: a second instance constructed with key k1, the populated users/k2, or
\* a new one with a value its shape rejects
InitI2 == { User("k1", [a |-> Num(9)]), PopulatedK2, User(NoId, [a |-> Num(999)]) }

\* the instance the calls of a chain are made on: the callback works on i1,
\* the other chain on i2 (both may designate the same document)
InstanceOf(t) == IF t = "cb" THEN "i1" ELSE "i2"

UpdateInputs == { [a |-> Num(9)], [a |-> Undef], [r |-> Null] }
\* reload(), reload({populate: ["r"]})
ReloadInputs == { NoPopulate, PopulateOf({"r"}) }

Init ==
  /\ store = InitStore
  /\ inst \in { [i \in Insts |-> IF i = "i1" THEN x ELSE IF i = "i2" THEN y ELSE NoInstance] :
                  x \in InitI1, y \in InitI2 }
  /\ task = [t \in Tasks |-> IdleTask]
  /\ unit = [u \in Units |-> NoUnit]
  /\ cur = 0
  /\ nextAuto = 0
  /\ nOps = 0
  /\ built = {}

Next ==
  \/ runInTransactionBegin
  \/ runInBatchBegin
  \/ CallbackResolves
  \/ \E err \in CallbackErrors : CallbackThrows(err)
  \/ CommitCalled
  \/ CommitApplied
  \/ \E t \in Tasks :
       \/ \E merge \in BOOLEAN : SaveStart(t, InstanceOf(t), merge)
       \/ \E updateData \in UpdateInputs : UpdateStart(t, InstanceOf(t), updateData)
       \/ DeleteStart(t, InstanceOf(t))
  \/ \E t \in Tasks :
       \/ SaveDispatch(t)
       \/ SaveSettle(t)
       \/ UpdateDispatch(t)
       \/ UpdateSettle(t)
       \/ DeleteDispatch(t)
       \/ DeleteSettle(t)
       \/ AfterHookResolves(t)
       \/ StoreApply(t)

Spec == Init /\ [][Next]_vars

(***************************************************************************)
(* The calls that need an identity key (update, delete, reload) under the  *)
(* same two call chains and helpers                                        *)
(***************************************************************************)
KeyedNext ==
  \/ runInTransactionBegin
  \/ runInBatchBegin
  \/ CallbackResolves
  \/ \E err \in CallbackErrors : CallbackThrows(err)
  \/ CommitCalled
  \/ CommitApplied
  \/ \E t \in Tasks :
       \/ \E updateData \in UpdateInputs \cup { [a |-> Num(999)] } :
            UpdateStart(t, InstanceOf(t), updateData)
       \/ DeleteStart(t, InstanceOf(t))
       \/ \E options \in ReloadInputs : ReloadStart(t, InstanceOf(t), options)
  \/ \E t \in Tasks :
       \/ UpdateDispatch(t)
       \/ UpdateSettle(t)
       \/ DeleteDispatch(t)
       \/ DeleteSettle(t)
       \/ AfterHookResolves(t)
       \/ StoreApply(t)
       \/ \E outcome \in {"ok", "error"} : FindByIdSettle(t, outcome)
       \/ PopulateFetched(t, "r", "ok")
       \/ FindByIdAttached(t, "ok")

SpecKeyed == Init /\ [][KeyedNext]_vars

(***************************************************************************)
(* The helpers with a callback that does not await its calls, and update   *)
(* with patches of every kind of key and value                             *)
(***************************************************************************)
\* the patches handed to update() hold plain values, sentinels, relation
\* values of every kind, the identity key, an internal key, a method's name
\* and a function
LooseNext ==
  \/ runInTransactionBegin
  \/ runInBatchBegin
  \/ CallbackReturns
  \/ CommitCalled
  \/ CommitApplied
  \/ \E t \in Tasks :
       \/ SaveStart(t, InstanceOf(t), FALSE)
       \/ \E updateData \in { [a |-> Num(9), b |-> FvDelete],
                              [a |-> FvIncrement, r |-> InstV("Dept", "d1", DeptD1)],
                              [r |-> Ref(DeptD1), id |-> Num(1), _tmp |-> Num(1)],
                              [r |-> Num(1), save |-> Num(1)],
                              [x |-> Fn] } :
            UpdateStart(t, InstanceOf(t), updateData)
       \/ DeleteStart(t, InstanceOf(t))
  \/ \E t \in Tasks :
       \/ SaveDispatch(t)
       \/ SaveSettle(t)
       \/ UpdateDispatch(t)
       \/ UpdateSettle(t)
       \/ DeleteDispatch(t)
       \/ DeleteSettle(t)
       \/ AfterHookResolves(t)
       \/ StoreApply(t)

SpecLoose == Init /\ [][LooseNext]_vars

\* the step is chain t issuing a call of one of ops
Issues(t, ops) ==
  /\ nOps' = nOps + 1
  /\ task'[t] # task[t]
  /\ task'[t].op \in ops

(***************************************************************************)
(* Properties of update: the patch, its cleaning and the local state       *)
(***************************************************************************)
\* the step is the update call of chain t going on with the patch written
\* (direct mode, the store's acknowledgement received) or enqueued (inside a
\* helper): the step that brings the local state up to date
UpdateApplied(t) ==
  /\ task[t].op = "update"
  /\ \/ task[t].pc = "hooked" /\ task'[t].pc = "done"
     \/ task[t].pc = "acked" /\ task[t].nAfter = 0 /\ task'[t].nAfter = 1

\* the value of a field, undefined when the instance has no such property
FieldOf(me, key) == IF key \in DOMAIN me.f THEN me.f[key] ELSE Undef

\* C22: when an update has written or enqueued its cleaned patch, the local
\* instance holds every plain value of the patch, keeps its previous value
\* for a key given a sentinel other than delete-field, has the key of a
\* delete-field sentinel cleared, and keeps every field the patch does not
\* name; in direct mode and inside a helper.
C22_LocalReflectsPatch ==
  [][ \A t \in Tasks : UpdateApplied(t) =>
        LET i == task[t].i
            clean == task[t].data
        IN \A key \in DOMAIN clean \cup DOMAIN inst[i].f \cup DOMAIN inst'[i].f :
             FieldOf(inst'[i], key) =
               IF key \notin DOMAIN clean THEN FieldOf(inst[i], key)
               ELSE IF clean[key] = FvDelete THEN Undef
               ELSE IF IsFieldValue(clean[key]) THEN FieldOf(inst[i], key)
               ELSE clean[key]
    ]_vars

\* inside a helper an increment sentinel for a was enqueued and a kept its
\* value; outside, a plain value and a delete-field sentinel were written and
\* the instance holds the one and has lost the other
C22_Witness ==
  /\ task["cb"].op = "update" /\ task["cb"].pc = "done" /\ task["cb"].ctx # 0
  /\ task["cb"].data = [a |-> FvIncrement]
  /\ inst["i1"].f["a"] = Num(1) /\ inst["i1"].f["b"] = Num(2)
  /\ task["out"].op = "update" /\ task["out"].pc = "done" /\ task["out"].ret = "ack"
  /\ task["out"].data = [a |-> Num(9), b |-> FvDelete]
  /\ inst["i2"].id = "k2" /\ inst["i2"].f["a"] = Num(9) /\ inst["i2"].f["b"] = Undef

\* the step is chain t issuing an update, on an instance that has a key,
\* with a patch of which the cleaning keeps nothing
EmptyUpdateIssued(t) ==
  /\ nOps' = nOps + 1
  /\ task'[t] # task[t]
  /\ task'[t].op = "update"
  /\ inst[task'[t].i].id # NoId
  /\ cleanUpdateData(inst[task'[t].i].model, inst[task'[t].i].f, task'[t].patch) = EmptyMap

\* C27: an update whose cleaned patch is empty ends at once, in the
\* callback's chain and outside it: no hook has run, nothing was written or
\* enqueued, the store, the units and the instances are unchanged, and the
\* call resolved, with an empty acknowledgement in direct mode and with
\* undefined inside a helper.
C27_EmptyPatchNoOp ==
  [][ \A t \in Tasks : EmptyUpdateIssued(t) =>
        /\ task'[t].pc = "done"
        /\ task'[t].ret = IF task'[t].ctx # 0 THEN "undefined" ELSE "emptyAck"
        /\ task'[t].nBefore = 0 /\ task'[t].nAfter = 0
        /\ task'[t].nWrites = 0 /\ task'[t].nEnq = 0
        /\ store' = store /\ unit' = unit /\ inst' = inst /\ nextAuto' = nextAuto
    ]_vars

\* a patch of a non-pointer relation value and a method's name was given to
\* update inside a helper and outside: both calls resolved without a hook
C27_Witness ==
  /\ \A t \in Tasks :
       /\ task[t].op = "update" /\ task[t].pc = "done"
       /\ task[t].patch = [r |-> Num(1), save |-> Num(1)]
       /\ task[t].nBefore = 0
  /\ task["cb"].ret = "undefined" /\ task["cb"].ctx # 0
  /\ task["out"].ret = "emptyAck"
  /\ \A u \in Units : unit[u].queue = << >>

\* the step is chain t issuing an update on an instance that has a key
UpdateIssued(t) ==
  /\ nOps' = nOps + 1
  /\ task'[t] # task[t]
  /\ task'[t].op = "update"
  /\ inst[task'[t].i].id # NoId

\* the step is one of the update call of chain t, after its issue
UpdateStep(t) ==
  /\ task[t].op = "update" /\ Running(t)
  /\ task'[t] # task[t]

\* the relation keys of the patch of call c whose value is neither null, nor
\* a pointer, nor a sentinel
RelationKeysRefused(c) ==
  { key \in DOMAIN c.patch \cap relationProperties(inst[c.i].model) :
      ~(c.patch[key] = Null \/ IsRef(c.patch[key]) \/ IsFieldValue(c.patch[key])) }

\* the data of the write the call of chain t enqueued in this step, if any
EnqueuedData(t) ==
  IF task'[t].nEnq > task[t].nEnq
    THEN { unit'[task[t].ctx].queue[Len(unit'[task[t].ctx].queue)].data }
    ELSE {}

\* C28: of the relation keys of a patch, update keeps in the cleaned patch
\* those whose value is null, a pointer or a sentinel and no other; a
\* relation key given a resolved instance or another value is in no write
\* sent or enqueued, and the instance's field of that key is left as it was.
C28_RelationKeysCleaned ==
  [][ \A t \in Tasks :
        /\ UpdateIssued(t) =>
             \A key \in DOMAIN task'[t].patch \cap relationProperties(inst[task'[t].i].model) :
               (key \in DOMAIN task'[t].data) <=> (key \notin RelationKeysRefused(task'[t]))
        /\ UpdateStep(t) =>
             \A key \in RelationKeysRefused(task[t]) :
               /\ key \notin DOMAIN task'[t].data
               /\ \A d \in EnqueuedData(t) : key \notin DOMAIN d
               /\ FieldOf(inst'[task[t].i], key) = FieldOf(inst[task[t].i], key)
               /\ task[t].pc = "writing" /\ Exists(store, task[t].path) /\ Exists(store', task[t].path)
                    => FieldOf([f |-> store'[task[t].path]], key)
                         = FieldOf([f |-> store[task[t].path]], key)
    ]_vars

\* inside a helper, update was given a resolved instance for r and an
\* increment for a: the increment alone was enqueued and the instance has no
\* r; outside, update was given a pointer for r: it was written and is the
\* instance's r
C28_Witness ==
  /\ task["cb"].op = "update" /\ task["cb"].pc = "done" /\ task["cb"].nEnq = 1
  /\ task["cb"].patch = [a |-> FvIncrement, r |-> InstV("Dept", "d1", DeptD1)]
  /\ task["cb"].data = [a |-> FvIncrement]
  /\ "r" \notin DOMAIN inst["i1"].f
  /\ task["out"].op = "update" /\ task["out"].ret = "ack"
  /\ "r" \in DOMAIN task["out"].data
  /\ inst["i2"].f["r"] = Ref(DeptD1)
  /\ store[task["out"].path]["r"] = Ref(DeptD1)

\* C29: the cleaned patch an update hands to its hook and to the store
\* holds no identity key, no key starting with an underscore and no function
\* value.
C29_CleanedPatchKeys ==
  [][ \A t \in Tasks : UpdateIssued(t) =>
        \A key \in DOMAIN task'[t].data :
          /\ key # "id"
          /\ ~StartsWithUnderscore(key)
          /\ task'[t].data[key].k # "function"
    ]_vars

\* update({x: function}) on an instance whose x is no function: the hook ran
\* with a patch holding the function, and the store refused the write
C29_Witness ==
  /\ task["out"].op = "update" /\ task["out"].pc = "failed"
  /\ task["out"].patch = [x |-> Fn]
  /\ task["out"].data = [x |-> Fn]
  /\ task["out"].nBefore = 1 /\ task["out"].nWrites = 1
  /\ task["out"].err = "StoreError"

\* what does hold: the cleaned patch holds no identity key, no key starting
\* with an underscore and no key under which the instance itself has a
\* function; a key given a function value is dropped only in that case
C29_CleanedPatchKeysOfInstance ==
  [][ \A t \in Tasks : UpdateIssued(t) =>
        /\ \A key \in DOMAIN task'[t].data :
             /\ key # "id"
             /\ ~StartsWithUnderscore(key)
             /\ ~IsFunctionProp(inst[task'[t].i].f, key)
        /\ \A key \in DOMAIN task'[t].patch :
             (task'[t].patch[key].k = "function" /\ key \notin DOMAIN task'[t].data)
               => (key = "id" \/ StartsWithUnderscore(key)
                     \/ IsFunctionProp(inst[task'[t].i].f, key))
    ]_vars

(***************************************************************************)
(* Properties of the calls a helper's callback does not await              *)
(***************************************************************************)
\* the step is the callback of the current helper returning
CallbackReturned ==
  /\ cur > 0 /\ cur' = cur
  /\ unit[cur].phase = "running" /\ unit'[cur].phase = "cbResolved"

\* C23: a save, update or delete issued inside a helper has enqueued its
\* write (or has ended) when it first suspends, so when the callback returns
\* no call it started is still short of its enqueue.
C23_EnqueuedBeforeSuspension ==
  [][ /\ \A t \in Tasks :
           (Issues(t, {"save", "update", "delete"}) /\ task'[t].ctx # 0)
              => task'[t].pc \in {"done", "failed"}
      /\ CallbackReturned =>
           \A t \in Tasks : task[t].ctx = cur => task[t].pc \in {"idle", "done", "failed"}
    ]_vars

\* the callback has returned; the save it started has run its pre-save hook
\* and has enqueued nothing yet
C23_Witness ==
  /\ cur > 0 /\ unit[cur].phase = "cbResolved" /\ unit[cur].queue = << >>
  /\ task["cb"].op = "save" /\ task["cb"].ctx = cur
  /\ task["cb"].pc = "hooked" /\ task["cb"].nBefore = 1 /\ task["cb"].nEnq = 0

\* what does hold: a call issued inside a helper that goes on suspends at its
\* pre-hook with nothing enqueued, and enqueues its one write in the step
\* that follows the hook
C23_EnqueuedAfterHook ==
  [][ \A t \in Tasks :
        /\ (Issues(t, {"save", "update", "delete"}) /\ task'[t].ctx # 0)
             => /\ task'[t].nEnq = 0 /\ unit' = unit
                /\ task'[t].pc = "hooked" => task'[t].nBefore = 1
        /\ task'[t].nEnq > task[t].nEnq
             => /\ task[t].pc = "hooked" /\ task[t].nBefore = 1
                /\ task[t].nEnq = 0 /\ task'[t].nEnq = 1
    ]_vars

\* the step is a call of chain t using the handle of its helper: its write is
\* enqueued, or refused by the unit
UsesHandle(t) ==
  /\ task[t].pc = "hooked" /\ task[t].ctx # 0
  /\ task'[t].pc \in {"done", "failed"}
  /\ task'[t].path # NoPath

\* C24: a call uses the handle of a helper only while the helper's callback
\* has not settled: no write is enqueued, and none is attempted on the
\* handle, after the callback has returned or thrown or after the commit.
C24_ContextEndsWithCallback ==
  [][ \A t \in Tasks : UsesHandle(t) => unit[task[t].ctx].phase = "running" ]_vars

\* the callback started a save and returned; the batch was committed empty,
\* and the save then went to the batch's handle, which refused it
C24_Witness ==
  /\ cur > 0 /\ unit[cur].kind = "batch" /\ unit[cur].phase = "committed"
  /\ unit[cur].queue = << >>
  /\ task["cb"].op = "save" /\ task["cb"].ctx = cur
  /\ task["cb"].pc = "failed" /\ task["cb"].err = "CommittedError"

\* what does hold: once the commit of a unit has been called its queue takes
\* no further write; a call that comes to the handle then is refused
C24_NoEnqueueAfterCommit ==
  [][ \A u \in Units :
        unit[u].phase \in {"committing", "committed", "commitFailed"}
          => /\ unit'[u].queue = unit[u].queue
             /\ \A t \in Tasks : (UsesHandle(t) /\ task[t].ctx = u)
                  => (task'[t].pc = "failed" /\ task'[t].nEnq = 0)
    ]_vars

(***************************************************************************)
(* Properties of the scoped helpers and of the dispatch                    *)
(***************************************************************************)
\* the step is the store answering the direct write of a call without context
IsDirectWrite ==
  \E t \in Tasks : /\ task[t].pc = "writing" /\ task[t].ctx = 0
                    /\ task'[t].pc \in {"acked", "nacked"}
                    /\ store' = ApplyWrite(store, WriteOf(t))

\* the step is the commit of unit u, whose callback resolved, being applied
IsCommitOf(u) ==
  /\ unit[u].phase = "committing" /\ unit'[u].phase = "committed"
  /\ unit[u].commits = 1
  /\ store' = ApplyAll(store, unit[u].queue).s

\* C1: a save/update/delete issued inside a runInTransaction callback changes
\* no document when it is issued: the store changes only by the direct write
\* of a call without context, or by the commit of a unit whose callback has
\* resolved; a transaction whose callback threw is never committed, stays
\* rejected, and rejects with the very error the callback threw.
C1_TransactionEffect ==
  [][ /\ store' # store => (IsDirectWrite \/ \E u \in Units : IsCommitOf(u))
      /\ \A t \in Tasks :
            (task[t].ctx # 0 /\ task'[t] # task[t]) => store' = store
      /\ \A u \in Units : unit'[u].kind = "tx" =>
            /\ unit'[u].phase = "rejected" =>
                  /\ unit'[u].commits = 0
                  /\ unit'[u].thrown # ""
                  /\ unit'[u].err = unit'[u].thrown
            /\ unit[u].phase = "rejected" => unit'[u] = unit[u]
            /\ unit'[u].commits > unit[u].commits => unit[u].phase = "cbResolved"
    ]_vars

\* a transaction whose callback threw after enqueueing a write: the write is
\* not in the store
C1_Witness ==
  /\ cur > 0
  /\ unit[cur].kind = "tx" /\ unit[cur].phase = "rejected"
  /\ unit[cur].thrown = "UserError"
  /\ Len(unit[cur].queue) >= 1
  /\ unit[cur].queue[1].kind = "set"
  /\ ~Exists(store, unit[cur].queue[1].path)

\* C2: runInBatch calls commit at most once, and only once the callback has
\* resolved; when the callback throws commit is never called, the batch keeps
\* its writes to itself (the store then changes only by direct writes or by
\* another unit's commit), and the caller gets the error thrown.
C2_BatchCommit ==
  [][ \A u \in Units : unit'[u].kind = "batch" =>
        /\ unit'[u].commits <= 1
        /\ unit'[u].commits > unit[u].commits =>
              /\ unit[u].phase = "cbResolved"
              /\ unit[u].thrown = ""
        /\ unit'[u].phase = "rejected" =>
              /\ unit'[u].commits = 0
              /\ unit'[u].err = unit'[u].thrown
              /\ unit'[u].err # ""
        /\ unit[u].phase = "rejected" =>
              /\ unit'[u] = unit[u]
              /\ store' # store =>
                    (IsDirectWrite \/ \E v \in Units \ {u} : IsCommitOf(v))
    ]_vars

\* a batch whose callback threw after enqueueing a write: never committed
C2_Witness ==
  /\ cur > 0
  /\ unit[cur].kind = "batch" /\ unit[cur].phase = "rejected"
  /\ unit[cur].err = "UserError"
  /\ unit[cur].commits = 0
  /\ Len(unit[cur].queue) >= 1

\* the call completed without error after reaching its write: a save, a
\* delete, or an update whose cleaned patch is not empty
Dispatched(c) ==
  /\ c.pc = "done"
  /\ c.op = "update" => DOMAIN c.data # {}

\* C3: a save, a delete or an update with a non-empty cleaned patch that
\* completes without error, with a transaction or batch as ambient context,
\* has enqueued exactly one operation into that unit, written nothing
\* directly and returns undefined; without context it has written directly
\* exactly once and returns the acknowledgement.  A unit's queue grows only
\* by one write of one call that observes that unit, and such a call never
\* changes the store.
C3_OneDispatch ==
  [][ /\ \A t \in Tasks : Dispatched(task'[t]) =>
            IF task'[t].ctx # 0
              THEN /\ task'[t].nEnq = 1 /\ task'[t].nWrites = 0
                   /\ task'[t].ret = "undefined"
              ELSE /\ task'[t].nEnq = 0 /\ task'[t].nWrites = 1
                   /\ task'[t].ret = "ack"
      /\ \A t \in Tasks : task'[t].nEnq > task[t].nEnq =>
            /\ task[t].ctx # 0
            /\ unit'[task[t].ctx].queue =
                 Append(unit[task[t].ctx].queue,
                        Write(WriteOf(t).kind, task'[t].path, task'[t].data,
                              task'[t].merge))
            /\ store' = store
      /\ \A u \in Units :
            (unit'[u].queue # unit[u].queue /\ unit[u].phase # "unused") =>
               \E t \in Tasks : task[t].ctx = u /\ task'[t].nEnq = task[t].nEnq + 1
      /\ \A t \in Tasks : task'[t].nWrites > task[t].nWrites =>
            /\ task[t].ctx = 0
            /\ task'[t].pc = "writing"
            /\ unit' = unit
    ]_vars

\* one call completed inside the callback and one outside it
C3_Witness ==
  /\ Dispatched(task["cb"]) /\ task["cb"].nEnq = 1 /\ task["cb"].ret = "undefined"
  /\ Dispatched(task["out"]) /\ task["out"].nWrites = 1 /\ task["out"].ret = "ack"

\* C4: no write and no enqueue happens before the call's before-hook ran,
\* and the before-hook runs once; the after-hook runs once, in the step that
\* follows the store's acknowledgement of a direct write, so a call that
\* completed directly has run it once and a call inside runInTransaction or
\* runInBatch never runs it, whatever happens to its unit afterwards.
C4_Hooks ==
  [][ \A t \in Tasks :
        /\ task'[t].nBefore <= 1
        /\ task'[t].nWrites + task'[t].nEnq > task[t].nWrites + task[t].nEnq =>
              /\ task[t].nBefore = 1
              /\ task[t].nAfter = 0
        /\ task'[t].nAfter > task[t].nAfter =>
              /\ task[t].pc = "acked" /\ task[t].ctx = 0
              /\ task[t].nAfter = 0 /\ task[t].nWrites = 1
              /\ store' = store
        /\ Dispatched(task'[t]) =>
              /\ task'[t].nBefore = 1
              /\ task'[t].nAfter = IF task'[t].ctx = 0 THEN 1 ELSE 0
        /\ task'[t].ctx # 0 => task'[t].nAfter = 0
    ]_vars

\* a call that completed inside a unit which has committed since
C4_Witness ==
  /\ cur > 0 /\ unit[cur].phase = "committed"
  /\ Dispatched(task["cb"]) /\ task["cb"].ctx = cur
  /\ task["cb"].nBefore = 1 /\ task["cb"].nAfter = 0
  /\ Dispatched(task["out"]) /\ task["out"].nAfter = 1

\* C5: a call observes a unit exactly when it is issued in the chain of the
\* helper's callback, and then the unit of that helper; a call of another
\* chain observes none, also while the callback is suspended in a call of
\* its own: it writes directly, and no step of it touches a unit.
C5_ContextPerChain ==
  [][ \A t \in Tasks :
        /\ task'[t].pc # "idle" => (task'[t].ctx # 0 <=> t = "cb")
        /\ (t = "cb" /\ task'[t] # task[t]) => task'[t].ctx = cur
        /\ (t # "cb" /\ task'[t] # task[t]) =>
              /\ unit' = unit
              /\ task'[t].nEnq = 0
              /\ (task[t].pc = "hooked" /\ task'[t].pc # "failed") =>
                    task'[t].pc = "writing"
    ]_vars

\* another chain has written directly while the callback is suspended in a
\* call of its own
C5_Witness ==
  /\ CallbackRunning /\ CallbackAwaiting
  /\ task["out"].pc = "done" /\ task["out"].nWrites = 1 /\ task["out"].ctx = 0
  /\ unit[cur].queue = << >>

\* C6: a save whose mapped form fails validation rejects with a
\* ValidationError carrying the failing fields, with or without ambient
\* context; the step changes neither the store nor any unit nor any instance
\* (an instance without identity key keeps none, no key is generated), and
\* the call has run no after-hook.
C6_ValidationFailure ==
  [][ \A t \in Tasks :
        (/\ task[t].pc = "hooked" /\ task[t].op = "save"
         /\ task'[t] # task[t]
         /\ validationIssues(inst[task[t].i].model,
                              toFirestore(inst[task[t].i].model, inst[task[t].i].f, TRUE))
              # {}) =>
           /\ task'[t].pc = "failed"
           /\ task'[t].err = "ValidationError"
           /\ task'[t].issues =
                validationIssues(inst[task[t].i].model,
                                 toFirestore(inst[task[t].i].model, inst[task[t].i].f, TRUE))
           /\ store' = store /\ unit' = unit /\ inst' = inst /\ nextAuto' = nextAuto
           /\ task'[t].nWrites = 0 /\ task'[t].nEnq = 0 /\ task'[t].nAfter = 0
    ]_vars

\* the save of an instance without key was rejected in both modes
C6_Witness ==
  /\ \A t \in Tasks : /\ task[t].op = "save" /\ task[t].err = "ValidationError"
                       /\ task[t].issues = {"a"}
                       /\ inst[task[t].i].id = NoId
  /\ task["cb"].ctx # 0 /\ task["out"].ctx = 0

(***************************************************************************)
(* Properties of the direct writes                                         *)
(***************************************************************************)
\* the step is the store acknowledging the direct write of call t
Acknowledged(t, op) ==
  /\ task[t].op = op /\ task[t].ctx = 0
  /\ task[t].pc = "writing" /\ task'[t].pc = "acked"

\* C7: a direct save without merge of an instance with identity key k writes
\* to the document of key k the instance's mapped fields and leaves the key
\* alone; once acknowledged the document consists of exactly these fields,
\* whatever it held before, and no other document was created or changed.
C7_SaveOverwrites ==
  [][ \A t \in Tasks :
        /\ (/\ task[t].op = "save" /\ task[t].ctx = 0 /\ ~task[t].merge
             /\ task[t].pc = "hooked" /\ task'[t].pc = "writing"
             /\ inst[task[t].i].id # NoId) =>
              /\ inst'[task[t].i].id = inst[task[t].i].id
              /\ task'[t].path =
                   << getCollectionName(inst[task[t].i].model), inst[task[t].i].id >>
              /\ task'[t].data =
                   toFirestore(inst[task[t].i].model, inst[task[t].i].f, TRUE)
        /\ (Acknowledged(t, "save") /\ ~task[t].merge) =>
              /\ DOMAIN store'[task[t].path] = DOMAIN task[t].data
              /\ \A key \in DOMAIN task[t].data :
                    store'[task[t].path][key] = task[t].data[key]
              /\ DOMAIN store' = DOMAIN store \cup { task[t].path }
              /\ \A q \in DOMAIN store \ { task[t].path } : store'[q] = store[q]
              /\ inst' = inst
    ]_vars

\* the second instance of key k1, carrying no field b, was saved over the
\* document {a: 1, b: 2}
C7_Witness ==
  /\ task["out"].op = "save" /\ task["out"].pc = "done" /\ ~task["out"].merge
  /\ task["out"].i = "i2" /\ task["out"].path = UserK1
  /\ inst["i2"].id = "k1"
  /\ DOMAIN store[UserK1] = {"a", "act", "ts"}
  /\ store[UserK1].a = Num(9)

\* C9: an acknowledged direct update changes in the stored document only the
\* fields of the cleaned patch: every other field of the document keeps its
\* value, no field outside the patch appears, no other document changes.
C9_UpdateFrame ==
  [][ \A t \in Tasks : Acknowledged(t, "update") =>
        /\ task[t].path \in DOMAIN store /\ task[t].path \in DOMAIN store'
        /\ \A key \in (DOMAIN store[task[t].path]) \ (DOMAIN task[t].data) :
              /\ key \in DOMAIN store'[task[t].path]
              /\ store'[task[t].path][key] = store[task[t].path][key]
        /\ DOMAIN store'[task[t].path] \subseteq
              (DOMAIN store[task[t].path]) \cup (DOMAIN task[t].data)
        /\ DOMAIN store' = DOMAIN store
        /\ \A q \in DOMAIN store \ { task[t].path } : store'[q] = store[q]
    ]_vars

\* stored {a: 1, b: 2}, update({a: 9}): the document is {a: 9, b: 2}
C9_Witness ==
  /\ task["out"].op = "update" /\ task["out"].pc = "done"
  /\ task["out"].data = [a |-> Num(9)] /\ task["out"].path = UserK1
  /\ store[UserK1] = [a |-> Num(9), b |-> Num(2)]

\* C10: when the store acknowledges the direct delete of the document of the
\* instance's key k, fetch-by-key of k finds nothing; the call then clears
\* the instance's key and relation cache and runs the post-delete hook, once
\* and with the key the instance had at the call, and it completes with the
\* store's acknowledgement once the hook has returned.
C10_DeleteClears ==
  [][ \A t \in Tasks :
        /\ (/\ Acknowledged(t, "delete")
             /\ task[t].path = << "users", task[t].origId >>) =>
              /\ findById(store', inst[task[t].i].model, task[t].origId) = NoInstance
              /\ DOMAIN store' = (DOMAIN store) \ { task[t].path }
        /\ (/\ task[t].op = "delete" /\ task[t].ctx = 0
             /\ task[t].pc = "acked" /\ task'[t] # task[t]) =>
              IF task[t].nAfter = 0 THEN
                /\ task'[t].pc = "acked" /\ task'[t].ret = ""
                /\ inst'[task[t].i].id = NoId
                /\ inst'[task[t].i].cache = EmptyMap
                /\ task'[t].nAfter = 1
                /\ task'[t].afterArg = task[t].origId
                /\ task[t].origId # NoId
              ELSE
                /\ task'[t].pc = "done" /\ task'[t].ret = "ack"
                /\ task'[t].nAfter = 1
                /\ task'[t].afterArg = task[t].origId
                /\ inst' = inst
    ]_vars

\* the populated instance of key k2 was deleted directly
C10_Witness ==
  /\ task["out"].op = "delete" /\ task["out"].pc = "done"
  /\ task["out"].i = "i2" /\ task["out"].afterArg = "k2"
  /\ task["out"].path = UserK2
  /\ inst["i2"].id = NoId /\ inst["i2"].cache = EmptyMap
  /\ findById(store, "User", "k2") = NoInstance

\* C18: an update whose cleaned patch violates a declared constraint of the
\* model rejects with a ValidationError and has written and enqueued nothing.
C18_UpdateValidates ==
  [][ \A t \in Tasks :
        (/\ task'[t].op = "update"
         /\ validationIssues(inst[task'[t].i].model, task'[t].data) # {}) =>
           /\ task'[t].pc = "failed" /\ task'[t].err = "ValidationError"
           /\ task'[t].nWrites = 0 /\ task'[t].nEnq = 0
    ]_vars

\* update({a: 999}) on a model whose a is declared 0..120 completed in the
\* callback's chain, enqueued, and outside it, where the document now holds 999
C18_Witness ==
  /\ \A t \in Tasks : /\ task[t].op = "update" /\ task[t].pc = "done"
                       /\ task[t].data = [a |-> Num(999)]
  /\ task["cb"].nEnq = 1 /\ task["cb"].err = ""
  /\ task["out"].nWrites = 1 /\ task["out"].ret = "ack"
  /\ store[task["out"].path]["a"] = Num(999)

(***************************************************************************)
(* One call chain reading and writing directly: populate, findById and     *)
(* reload between the writes of save, update and delete                    *)
(***************************************************************************)
GiftC1 == << "users", "u1", "gift-cards", "c1" >>
DeptD9 == << "departments", "d9" >>

\* users/k2 points to a department and a gift card that exist, users/k3 to a
\* department that does not; employees/e1 leads teams/t1, which it owns (both
\* relations are eager); teams/t2 is owned by employees/e2, who leads none
ReadStore ==
  [p \in { DeptD1, GiftC1, UserK1, UserK2, << "users", "k3" >>,
           << "employees", "e1" >>, << "teams", "t1" >>,
           << "employees", "e2" >>, << "teams", "t2" >> } |->
     CASE p = DeptD1 -> [n |-> Num(1)]
       [] p = << "employees", "e1" >> -> [lead |-> Ref(<< "teams", "t1" >>)]
       [] p = << "teams", "t1" >> -> [owner |-> Ref(<< "employees", "e1" >>)]
       [] p = << "employees", "e2" >> -> [n |-> Num(2)]
       [] p = << "teams", "t2" >> -> [owner |-> Ref(<< "employees", "e2" >>)]
       [] p = GiftC1 -> [c |-> Num(5)]
       [] p = UserK1 -> [a |-> Num(1), b |-> Num(2)]
       [] p = UserK2 -> [a |-> Num(1), r |-> Ref(DeptD1), g |-> Ref(GiftC1)]
       [] OTHER -> [a |-> Num(3), r |-> Ref(DeptD9), g |-> Null]]

\* i1 was loaded from the store; i2 was constructed with the same key; i3 was
\* constructed as the employee e1
ReadInit ==
  /\ store = ReadStore
  /\ inst \in { [i \in Insts |-> IF i = "i1" THEN findById(ReadStore, "User", id)
                                  ELSE IF i = "i2" THEN User(id, f)
                                  ELSE Instance("Emp", "e1",
                                         [lead |-> Ref(<< "teams", "t1" >>)], EmptyMap, "")] :
                  id \in {"k1", "k2", "k3"}, f \in { [a |-> Num(9)] } }
  /\ task = [t \in Tasks |-> IdleTask]
  /\ unit = [u \in Units |-> NoUnit]
  /\ cur = 0
  /\ nextAuto = 0
  /\ nOps = 0
  /\ built = {}

ReadNext ==
  \/ \E fieldNames \in { {"r"}, {"g"}, {"r", "g"} } : PopulateStart("out", "i1", fieldNames)
  \/ \E fieldName \in {"r", "g"}, outcome \in GetOutcomes :
       PopulateFetched("out", fieldName, outcome)
  \/ PopulateSettle("out")
  \/ AssignField("out", "i1", "r", Ref(DeptD1))
  \/ \E id \in {"k2", "k9"} : FindByIdStart("out", "User", id, NoPopulate)
  \/ \E outcome \in GetOutcomes : FindByIdSettle("out", outcome)
  \/ \E c \in { Cond("a", "==", Num(1)), Cond("a", ">=", Num(1)) },
        queryFn \in { NoCond, Cond("b", "==", Num(2)) } :
       FindWhereStart("out", "User", c, queryFn)
  \/ \E outcome \in {"ok", "error"} : FindAllAnswered("out", outcome)
  \/ \E options \in ReloadInputs : ReloadStart("out", "i1", options)
  \/ \E outcome \in GetOutcomes : FindByIdAttached("out", outcome)
  \/ \E i \in {"i1", "i2"} :
       \/ SaveStart("out", i, FALSE)
       \/ \E updateData \in UpdateInputs : UpdateStart("out", i, updateData)
       \/ DeleteStart("out", i)
  \/ SaveDispatch("out")
  \/ SaveSettle("out")
  \/ UpdateDispatch("out")
  \/ UpdateSettle("out")
  \/ DeleteDispatch("out")
  \/ DeleteSettle("out")
  \/ AfterHookResolves("out")
  \/ StoreApply("out")
  \/ StoreRefuses("out")

SpecRead == ReadInit /\ [][ReadNext]_vars

(***************************************************************************)
(* populate alone, on instances whose related types have eager relations   *)
(* of their own                                                            *)
(***************************************************************************)
EagerNext ==
  \/ \E fieldNames \in { {"r"}, {"r", "g"} } : PopulateStart("out", "i1", fieldNames)
  \/ PopulateStart("out", "i3", {"lead"})
  \/ \E fieldName \in {"r", "g", "lead", "owner"}, outcome \in GetOutcomes :
       PopulateFetched("out", fieldName, outcome)
  \/ \E d \in task["out"].deep, outcome \in GetOutcomes : EagerFetched("out", d, outcome)
  \/ PopulateSettle("out")
  \/ \E v \in { Ref(<< "teams", "t1" >>), Ref(<< "teams", "t2" >>) } :
       AssignField("out", "i3", "lead", v)
  \/ \E m \in {"Emp", "Team"}, id \in {"e1", "e2", "t2"} :
       FindByIdStart("out", m, id, NoPopulate)
  \/ \E outcome \in GetOutcomes : FindByIdSettle("out", outcome)

SpecEager == ReadInit /\ [][EagerNext]_vars

(***************************************************************************)
(* populate, direct assignment of a pointer and update of a relation, the  *)
(* update direct or inside a batch                                         *)
(***************************************************************************)
CacheNext ==
  \/ runInBatchBegin
  \/ CallbackReturns
  \/ CommitCalled
  \/ CommitApplied
  \/ PopulateStart("out", "i1", {"r", "g"})
  \/ \E fieldName \in {"r", "g"}, outcome \in {"ok", "error"} :
       PopulateFetched("out", fieldName, outcome)
  \/ PopulateSettle("out")
  \/ AssignField("out", "i1", "r", Ref(DeptD1))
  \/ \E t \in Tasks :
       \/ \E updateData \in { [r |-> Ref(DeptD1)], [r |-> Null], [a |-> Num(9)] } :
            UpdateStart(t, "i1", updateData)
       \/ UpdateDispatch(t)
       \/ UpdateSettle(t)
       \/ AfterHookResolves(t)
       \/ StoreApply(t)

SpecCache == ReadInit /\ [][CacheNext]_vars

\* C25: a populate call fetches the target of each pointer field and nothing
\* below it: no relation of a target is fetched, and the call makes at most
\* one fetch per requested field.
C25_OneLevel ==
  \A t \in Tasks : task[t].op = "populate" =>
    /\ task[t].deep = {}
    /\ task[t].nFetch <= Cardinality(task[t].fields)

\* populate("lead") on the employee e1 has fetched the team t1, then its
\* owner e1, and is fetching t1 again; the field is not set yet
C25_Witness ==
  /\ task["out"].op = "populate" /\ task["out"].i = "i3"
  /\ task["out"].pc = "populating"
  /\ task["out"].nFetch = 3
  /\ \E d \in task["out"].deep :
       d.level = 3 /\ d.related = "Team" /\ d.value = Ref(<< "teams", "t1" >>)
  /\ inst["i3"].f["lead"] = Ref(<< "teams", "t1" >>)

\* what does hold: a populate call stays at one level when the related types
\* of the requested fields declare no eager relation, and every fetch below
\* the first level is that of an eager relation of a related type
C25_OneLevelBelowLazyTypes ==
  \A t \in Tasks : task[t].op = "populate" =>
    LET m == inst[task[t].i].model
        rels == task[t].fields \cap relationProperties(m)
    IN /\ (\A key \in rels : eagerRels(RelatedModelOf(m, key)) = {})
            => (task[t].deep = {} /\ task[t].nFetch <= Cardinality(task[t].fields))
       /\ \A d \in task[t].deep :
            \E x \in Models : \E rel \in getRelationMetadata(x) :
              ~rel.lazy /\ rel.relatedModel = d.related

(***************************************************************************)
(* Properties of the calls that need an identity key                       *)
(***************************************************************************)
\* C11: update, delete and reload issued on an instance without identity key
\* reject on the spot with the missing-key error, in the callback's chain and
\* outside it: no hook has run, nothing was written, enqueued or fetched, the
\* store, the units and every instance are unchanged and no key was generated.
C11_NoKeyRejected ==
  [][ \A t \in Tasks :
        (Issues(t, {"update", "delete", "reload"}) /\ inst[task'[t].i].id = NoId) =>
           /\ task'[t].pc = "failed" /\ task'[t].err = "NoIdError"
           /\ task'[t].nBefore = 0 /\ task'[t].nAfter = 0
           /\ task'[t].nWrites = 0 /\ task'[t].nEnq = 0 /\ task'[t].nFetch = 0
           /\ store' = store /\ unit' = unit /\ inst' = inst /\ nextAuto' = nextAuto
    ]_vars

\* a reload inside the callback and an update outside it were both rejected
\* for instances that have no key, and still have none
C11_Witness ==
  /\ task["cb"].op = "reload" /\ task["cb"].err = "NoIdError" /\ task["cb"].ctx # 0
  /\ task["out"].op = "update" /\ task["out"].err = "NoIdError" /\ task["out"].ctx = 0
  /\ inst["i1"].id = NoId /\ inst["i2"].id = NoId
  /\ nextAuto = 0

(***************************************************************************)
(* Properties of populate, findById and reload                             *)
(***************************************************************************)
\* the step is chain t starting a populate call
PopulateIssued(t) ==
  /\ task'[t].op = "populate" /\ task'[t].pc = "populating"
  /\ task[t].pc # "populating"

\* the step is the populate call of chain t returning
PopulateReturns(t) ==
  /\ task[t].op = "populate" /\ task[t].pc = "populating"
  /\ task'[t].pc = "done"

\* C12: when populate returns, every requested relation field has a cache
\* entry; a populate call that finds the entry of a requested field fetches
\* nothing for it, sets the field to the cached value and keeps the entry; an
\* entry is dropped or replaced only by a step of an update, a delete or a
\* reload of the instance.
C12_RelationCache ==
  [][ /\ \A t \in Tasks :
           /\ PopulateIssued(t) =>
                \A r \in task'[t].fields \cap DOMAIN inst[task'[t].i].cache :
                   /\ r \notin DOMAIN task'[t].pending
                   /\ Get(inst'[task'[t].i].f, r) = inst[task'[t].i].cache[r]
                   /\ r \in DOMAIN inst'[task'[t].i].cache
                   /\ inst'[task'[t].i].cache[r] = inst[task'[t].i].cache[r]
           /\ PopulateReturns(t) =>
                \A r \in task[t].fields \cap relationProperties(inst[task[t].i].model) :
                   r \in DOMAIN inst'[task[t].i].cache
      /\ \A i \in Insts : \A r \in DOMAIN inst[i].cache :
           (r \notin DOMAIN inst'[i].cache \/ inst'[i].cache[r] # inst[i].cache[r]) =>
              \E t \in Tasks : /\ task'[t].i = i /\ task'[t] # task[t]
                                /\ task'[t].op \in {"update", "delete", "reload"}
    ]_vars

\* a populate call returned without a fetch, the field set to the department
\* an earlier populate had resolved
C12_Witness ==
  /\ task["out"].op = "populate" /\ task["out"].pc = "done"
  /\ task["out"].fields = {"r"} /\ task["out"].nFetch = 0
  /\ "r" \in DOMAIN inst["i1"].cache
  /\ inst["i1"].cache["r"] = InstV("Dept", "d1", DeptD1)
  /\ inst["i1"].f["r"] = InstV("Dept", "d1", DeptD1)

\* C13: a populate call never rejects; the step in which the fetch of one
\* field fails sets that field to null, caches null for it and leaves the
\* call waiting; the call returns only when no fetch is pending, and then
\* every fetched field whose fetch did not fail holds what its pointer
\* resolves to, every field whose fetch failed holds null, cached as null.
C13_PopulateFailure ==
  [][ \A t \in Tasks :
        /\ task'[t].op = "populate" => task'[t].pc # "failed"
        /\ (task[t].op = "populate" /\ task[t].pc = "populating") =>
             \A r \in (DOMAIN task[t].pending) \ (DOMAIN task'[t].pending) :
                r \in task'[t].fetchFailed =>
                   /\ inst'[task[t].i].f[r] = Null
                   /\ inst'[task[t].i].cache[r] = Null
                   /\ task'[t].pc = "populating"
        /\ PopulateReturns(t) =>
             /\ DOMAIN task[t].pending = {}
             /\ \A r \in DOMAIN task[t].data :
                   IF r \in task[t].fetchFailed
                     THEN /\ inst'[task[t].i].f[r] = Null
                          /\ inst'[task[t].i].cache[r] = Null
                     ELSE inst'[task[t].i].f[r] =
                            populateFetch(store, RelatedModelOf(inst[task[t].i].model, r),
                                          task[t].data[r])
    ]_vars

\* populate(["r", "g"]) returned: the fetch of r failed, g is resolved
C13_Witness ==
  /\ task["out"].op = "populate" /\ task["out"].pc = "done"
  /\ task["out"].fields = {"r", "g"} /\ task["out"].fetchFailed = {"r"}
  /\ inst["i1"].f["r"] = Null /\ inst["i1"].cache["r"] = Null
  /\ inst["i1"].f["g"] = InstV("Gift", "c1", GiftC1)

\* C14: when the get of a findById is answered, a store error other than
\* not-found is thrown to the caller; a not-found signal and a missing
\* document both give null with no afterLoad call; an existing document is
\* mapped to an instance of the class with the requested key and the stored
\* fields, afterLoad being called on each of the two instances built; in the
\* steps that follow, up to the return, the sub-collection properties the
\* class declares are queried: an error of a query is thrown or, for a
\* not-found signal, gives null, and otherwise the instance is returned, its
\* only other properties being the declared sub-collection properties.
C14_FindById ==
  [][ \A t \in Tasks :
        (task[t].op = "findById" /\ task[t].pc = "finding" /\ task'[t] # task[t]) =>
          IF task[t].answer = "" THEN
            CASE task'[t].answer = "error" ->
                   /\ task'[t].pc = "failed" /\ task'[t].err = "StoreError"
                   /\ task'[t].nLoad = 0
              [] task'[t].answer = "code5" \/ ~Exists(store, task[t].path) ->
                   /\ task'[t].pc = "done" /\ task'[t].ret = "null"
                   /\ task'[t].result = NoInstance /\ task'[t].nLoad = 0
              [] OTHER ->
                   /\ \/ task'[t].pc = "finding"
                      \/ task'[t].pc = "done" /\ task'[t].ret = "instance"
                   /\ task'[t].result.model = task[t].i
                   /\ task'[t].result.id = task[t].origId
                   /\ task'[t].result.f = store[task[t].path]
                   /\ task'[t].nLoad = 2
          ELSE
            /\ task'[t].nLoad = 2
            /\ task'[t].pc = "failed" => task'[t].err = "StoreError"
            /\ task'[t].pc = "done" =>
                 \/ task'[t].ret = "null" /\ task'[t].result = NoInstance
                 \/ /\ task'[t].ret = "instance"
                    /\ task'[t].result.model = task[t].i
                    /\ task'[t].result.id = task[t].origId
                    /\ \A key \in DOMAIN store[task[t].path] :
                         task'[t].result.f[key] = store[task[t].path][key]
                    /\ DOMAIN task'[t].result.f \ DOMAIN store[task[t].path]
                         = eagerSubs(task[t].i)
    ]_vars

\* findById("k2") gave null after the document of key k2 was deleted
C14_Witness ==
  /\ task["out"].op = "findById" /\ task["out"].pc = "done"
  /\ task["out"].origId = "k2" /\ task["out"].answer = "ok"
  /\ task["out"].ret = "null" /\ task["out"].nLoad = 0
  /\ ~Exists(store, UserK2)

\* the step is the reload of chain t getting the store's answer to its get
ReloadAnswered(t) ==
  /\ task[t].op = "reload" /\ task[t].pc = "reloading"
  /\ task[t].answer = "" /\ task'[t] # task[t]

\* C15: a reload whose fetch finds no document at the instance's key rejects
\* with a NotFoundError that carries the class name and the key, and the
\* step changes no instance: fields, key and relation cache are as before.
C15_ReloadNotFound ==
  [][ \A t \in Tasks :
        (/\ ReloadAnswered(t)
         /\ task'[t].answer # "error"
         /\ ~Exists(store, << getCollectionName(inst[task[t].i].model),
                              inst[task[t].i].id >>)) =>
           /\ task'[t].pc = "failed" /\ task'[t].err = "NotFoundError"
           /\ task'[t].errInfo = << inst[task[t].i].model, inst[task[t].i].id >>
           /\ inst'[task[t].i].id = task[t].origId
           /\ inst' = inst
    ]_vars

\* the populated instance of key k2 was reloaded after its document had been
\* deleted through another instance: it still has its key and its cache
C15_Witness ==
  /\ task["out"].op = "reload" /\ task["out"].err = "NotFoundError"
  /\ task["out"].errInfo = << "User", "k2" >>
  /\ inst["i1"].id = "k2"
  /\ "r" \in DOMAIN inst["i1"].cache
  /\ inst["i1"].f["r"] = InstV("Dept", "d1", DeptD1)
  /\ ~Exists(store, UserK2)

\* field key of instance me holds what document doc stores for it: the
\* stored value, or for a stored pointer the instance it resolves to in s
HoldsStored(s, me, doc, key) ==
  \/ Get(me.f, key) = doc[key]
  \/ /\ key \in relationProperties(me.model) /\ IsRef(doc[key])
     /\ Get(me.f, key) = populateFetch(s, RelatedModelOf(me.model, key), doc[key])

\* the step is a reload of chain t succeeding
ReloadSucceeds(t) ==
  /\ task[t].op = "reload" /\ task[t].pc = "reloading"
  /\ task'[t].pc = "done"

\* C16: a reload that succeeds returns the instance it was called on, leaves
\* the key unchanged, and leaves the instance with exactly the fields of the
\* stored document: every stored field with its stored value, and no field
\* set (to anything but null or undefined) that the document does not have.
C16_ReloadEqualsStored ==
  [][ \A t \in Tasks : ReloadSucceeds(t) =>
        LET i == task[t].i
            doc == store[<< getCollectionName(inst[i].model), inst[i].id >>]
        IN /\ task'[t].ret = "this"
           /\ inst'[i].id = inst[i].id
           /\ \A key \in DOMAIN doc : HoldsStored(store, inst'[i], doc, key)
           /\ \A key \in (DOMAIN inst'[i].f) \ (DOMAIN doc) : IsUnset(inst'[i].f, key)
    ]_vars

\* the instance loaded from {a: 1, b: 2} was reloaded after the document was
\* overwritten without b: it still holds b
C16_Witness ==
  /\ task["out"].op = "reload" /\ task["out"].pc = "done"
  /\ inst["i1"].id = "k1"
  /\ "b" \notin DOMAIN store[UserK1]
  /\ inst["i1"].f["a"] = Num(9)
  /\ inst["i1"].f["b"] = Num(2)

\* what does hold, no write coming between the round trips of the reload:
\* the same instance, the same key, every field of the stored document with
\* its stored value, a requested relation whose fetch failed being null
C16_ReloadTakesStored ==
  [][ \A t \in Tasks : ReloadSucceeds(t) =>
        LET i == task[t].i
            doc == store[<< getCollectionName(inst[i].model), inst[i].id >>]
        IN /\ task'[t].ret = "this"
           /\ inst'[i].id = inst[i].id
           /\ \A key \in DOMAIN doc :
                \/ HoldsStored(store, inst'[i], doc, key)
                \/ key \in task'[t].fetchFailed /\ Get(inst'[i].f, key) = Null
    ]_vars

\* the step is the first one of a save of chain t
SaveIssued(t) == Issues(t, {"save"})

\* the value save leaves in field key of an instance with fields f, when the
\* default declared for the field is v
Defaulted(f, key, v) == IF IsUnset(f, key) THEN v ELSE f[key]

\* C17: save gives every boolean field declared with a default value d, true
\* or false, and every temporal field declared auto-fill, the value d
\* (respectively the current time) when the field is null or absent, and
\* leaves it unchanged otherwise; the write carries that value.
C17_DefaultsAtSave ==
  [][ \A t \in Tasks :
        /\ SaveIssued(t) =>
             LET me == inst[task'[t].i]
             IN /\ \A d \in BooleanDeclared(me.model) :
                      Get(inst'[task'[t].i].f, d.prop) =
                        Defaulted(me.f, d.prop, Bool(d.defaultValue))
                /\ \A key \in TimestampDefaults(me.model) :
                      Get(inst'[task'[t].i].f, key) = Defaulted(me.f, key, Now)
        /\ (task[t].op = "save" /\ task[t].pc = "hooked" /\ task'[t].pc = "writing") =>
             LET me == inst[task[t].i]
             IN \A key \in { d.prop : d \in BooleanDeclared(me.model) }
                             \cup TimestampDefaults(me.model) :
                   /\ key \in DOMAIN task'[t].data
                   /\ task'[t].data[key] = Get(me.f, key)
    ]_vars

\* a new instance was saved: it has the true default and the time, but not
\* the false default, and neither has the document
C17_Witness ==
  /\ task["out"].op = "save" /\ task["out"].pc = "done" /\ task["out"].i = "i2"
  /\ inst["i2"].f["act"] = Bool(TRUE) /\ inst["i2"].f["ts"] = Now
  /\ "off" \notin DOMAIN inst["i2"].f
  /\ store[task["out"].path]["act"] = Bool(TRUE)
  /\ "off" \notin DOMAIN store[task["out"].path]

\* what does hold: the same for the defaults the decorators recorded, which
\* are the auto-fill temporal fields and the boolean defaults that are true
C17_RecordedDefaultsAtSave ==
  [][ \A t \in Tasks :
        /\ SaveIssued(t) =>
             LET me == inst[task'[t].i]
             IN /\ \A d \in BooleanDefaults(me.model) :
                      Get(inst'[task'[t].i].f, d.prop) =
                        Defaulted(me.f, d.prop, Bool(d.defaultValue))
                /\ \A key \in TimestampDefaults(me.model) :
                      Get(inst'[task'[t].i].f, key) = Defaulted(me.f, key, Now)
        /\ (task[t].op = "save" /\ task[t].pc = "hooked" /\ task'[t].pc = "writing") =>
             LET me == inst[task[t].i]
             IN \A key \in { d.prop : d \in BooleanDefaults(me.model) }
                             \cup TimestampDefaults(me.model) :
                   /\ key \in DOMAIN task'[t].data
                   /\ task'[t].data[key] = Get(me.f, key)
    ]_vars

\* the keys of the documents of the collection of model m that satisfy
\* every filter of cs
Selected(s, m, cs) ==
  { p[2] : p \in { q \in DOMAIN s : /\ Len(q) = 2 /\ q[1] = getCollectionName(m)
                                      /\ \A c \in cs : Matches(s[q], c) } }

\* the step is the return of a findWhere of chain t
FindWhereReturns(t) ==
  /\ task[t].op = "findWhere" /\ task[t].pc = "finding"
  /\ task'[t].pc = "done"

\* C19: findWhere called with a queryFn in its options returns exactly the
\* documents that satisfy the field condition and the filter of the queryFn.
C19_FindWhereCombines ==
  [][ \A t \in Tasks :
        (FindWhereReturns(t) /\ task'[t].queryFn # NoCond) =>
           DOMAIN task'[t].results =
             Selected(store, task'[t].i, { task'[t].cond, task'[t].queryFn })
    ]_vars

\* findWhere("a", "==", 1, {queryFn: ref => ref.where("b", "==", 2)}) returned
\* the document {a: 1, b: 2} and also one that has no b
C19_Witness ==
  /\ task["out"].op = "findWhere" /\ task["out"].pc = "done"
  /\ task["out"].cond = Cond("a", "==", Num(1))
  /\ task["out"].queryFn = Cond("b", "==", Num(2))
  /\ DOMAIN task["out"].results = {"k1", "k2"}
  /\ "b" \notin DOMAIN store[UserK2]

\* what does hold: the documents returned are those that satisfy the field
\* condition, with or without a queryFn in the options
C19_FindWhereFieldOnly ==
  [][ \A t \in Tasks :
        FindWhereReturns(t) =>
           DOMAIN task'[t].results = Selected(store, task'[t].i, { task'[t].cond })
    ]_vars

(***************************************************************************)
(* Nested types: an owner, a gift card in its sub-collection, a note in    *)
(* that of the gift card, saved, updated and deleted directly              *)
(***************************************************************************)
NestedInit ==
  /\ store = Override(InitStore,
       [p \in { << "users", "k1", "gift-cards", "c1" >>,
                << "users", "k1", "gift-cards", "c2" >>,
                << "users", "k2", "gift-cards", "c3" >> } |->
          IF p[4] = "c1" THEN [c |-> Num(5)] ELSE [c |-> Num(7)]])
  /\ inst \in { [i \in Insts |->
                   IF i = "i1" THEN me
                   ELSE IF i = "i2" THEN Instance("Gift", NoId, [c |-> Num(5)], EmptyMap, "i1")
                   ELSE Instance("Note", NoId, [c |-> Num(c)], EmptyMap, "i2")] :
                  me \in { User("k1", [a |-> Num(1)]), User(NoId, [a |-> Num(1)]),
                           Instance("Admin", "k2", [lvl |-> Num(1), a |-> Num(1)],
                                    EmptyMap, ""),
                           Instance("Admin", NoId,
                                    [lvl |-> Num(1),
                                     r |-> InstV("Team", "t1", << "teams", "t1" >>),
                                     g |-> InstV("Gift", "c1", << "users", "k1", "gift-cards", "c1" >>)],
                                    EmptyMap, "") },
                  c \in {1, 120} }
  /\ task = [t \in Tasks |-> IdleTask]
  /\ unit = [u \in Units |-> NoUnit]
  /\ cur = 0
  /\ nextAuto = 0
  /\ nOps = 0
  /\ built = {}

NestedNext ==
  \/ \E i \in Insts :
       \/ SaveStart("out", i, FALSE)
       \/ UpdateStart("out", i, [c |-> Num(9)])
       \/ DeleteStart("out", i)
  \/ \E id \in {"k1", "k2"} : AssignKey("out", "i1", id)
  \/ \E i \in {"i1", "i2"} : DocRefGet("out", i)
  \/ CollectionRefGet("out", "i3")
  \/ \E i \in {"i1", "i2"}, prop \in {"cards", "notes"},
        queryFn \in { NoCond, Cond("c", ">=", Num(6)) } :
       SubcollectionStart("out", i, prop, queryFn)
  \/ \E outcome \in {"ok", "error"} : SubcollectionAnswered("out", outcome)
  \/ \E i \in {"i1", "i2"} : ReloadStart("out", i, NoPopulate)
  \/ \E outcome \in {"ok", "error"} : FindByIdSettle("out", outcome)
  \/ \E outcome \in {"ok", "error"} : FindByIdAttached("out", outcome)
  \/ SaveDispatch("out")
  \/ SaveSettle("out")
  \/ UpdateDispatch("out")
  \/ UpdateSettle("out")
  \/ DeleteDispatch("out")
  \/ DeleteSettle("out")
  \/ AfterHookResolves("out")
  \/ StoreApply("out")

SpecNested == NestedInit /\ [][NestedNext]_vars

\* <owner's storage path>/<declared sub-path>/<own key>, the owner's path
\* taken through the ownership links of the instances I
RECURSIVE OwnedPath(_, _)
OwnedPath(I, i) ==
  IF SubModelMeta(I[i].model).has
    THEN OwnedPath(I, I[i].parent) \o << SubModelMeta(I[i].model).subPath, I[i].id >>
    ELSE << getCollectionName(I[i].model), I[i].id >>

\* the step is a call of chain t on a nested instance reaching its write
NestedWrite(t) ==
  /\ task[t].pc = "hooked" /\ task'[t].pc = "writing"
  /\ SubModelMeta(inst[task[t].i].model).has

\* C20: a save, update or delete of an instance of a nested type that
\* reaches its write addresses the document at the owner's path, as the
\* ownership chain gives it at this call, followed by the sub-path and the
\* instance's key, at any depth; the instance has a key then.
C20_NestedAddress ==
  [][ \A t \in Tasks : NestedWrite(t) =>
        /\ inst'[task[t].i].id # NoId
        /\ task'[t].path = OwnedPath(inst', task[t].i)
    ]_vars

\* the gift card was saved under the owner of key k1; the owner's key is k2
\* now, and the update of the gift card went to the document under k1
C20_Witness ==
  /\ task["out"].op = "update" /\ task["out"].pc = "done" /\ task["out"].i = "i2"
  /\ inst["i1"].id = "k2"
  /\ task["out"].path = << "users", "k1", "gift-cards", inst["i2"].id >>
  /\ OwnedPath(inst, "i2") = << "users", "k2", "gift-cards", inst["i2"].id >>

\* neither the instance i nor an owner above it holds a cached reference
RECURSIVE Uncached(_, _)
Uncached(I, i) ==
  /\ I[i].docRef = NoPath
  /\ SubModelMeta(I[i].model).has => Uncached(I, I[i].parent)

\* what does hold: the call gives the instance a key and leaves the address
\* of its write cached on it; with no reference cached on the instance or on
\* an owner above it, that address is the one through the ownership chain;
\* with a reference cached on the instance, it is that reference
C20_NestedAddressCached ==
  [][ \A t \in Tasks : NestedWrite(t) =>
        /\ inst'[task[t].i].id # NoId
        /\ task'[t].path = inst'[task[t].i].docRef
        /\ Uncached(inst, task[t].i) => task'[t].path = OwnedPath(inst', task[t].i)
        /\ inst[task[t].i].docRef # NoPath => task'[t].path = inst[task[t].i].docRef
    ]_vars

\* the step is the save call of chain t going past its pre-save hook
SaveDispatched(t) ==
  /\ task[t].op = "save" /\ task[t].pc = "hooked"
  /\ task'[t].pc # "hooked"

\* C26: save applies the declared defaults and runs the pre-save hook when
\* it is issued, before anything is validated, keyed or written; it then
\* validates the mapped form of the instance as the hook left it, and only
\* then resolves the key and sends the write; a validation failure comes
\* with the hook run and without a key; the document stored is the validated
\* mapped form.
C26_SaveOrder ==
  [][ \A t \in Tasks :
        LET i == task'[t].i
            me == inst[i]
        IN /\ Issues(t, {"save"}) =>
                /\ task'[t].pc = "hooked" /\ task'[t].nBefore = 1
                /\ task'[t].nWrites = 0 /\ task'[t].path = NoPath
                /\ inst'[i].id = me.id /\ nextAuto' = nextAuto /\ store' = store
                /\ \A key \in TimestampDefaults(me.model) :
                     ~IsUnset(inst'[i].f, key)
                /\ me.model = "Note" => inst'[i].f["c"] = Num(me.f["c"].n + 1)
           /\ SaveDispatched(t) =>
                /\ task'[t].nBefore = 1
                /\ task'[t].pc \in {"writing", "failed"}
                /\ (me.model = "Note" /\ me.f["c"].n > 120)
                     => task'[t].err = "ValidationError"
                /\ task'[t].pc = "failed" =>
                     /\ inst'[i].id = me.id /\ nextAuto' = nextAuto /\ store' = store
                     /\ task'[t].nWrites = 0
                /\ task'[t].pc = "writing" =>
                     /\ task'[t].data = toFirestore(me.model, me.f, TRUE)
                     /\ validate(me.model, task'[t].data)
                     /\ inst'[i].id # NoId
                     /\ me.docRef = NoPath
                          => task'[t].path[Len(task'[t].path)] = inst'[i].id
           /\ (task[t].op = "save" /\ task[t].pc = "writing" /\ task'[t].pc = "acked")
                => store'[task[t].path] = task[t].data
    ]_vars

\* the note constructed with c = 1 was saved under the gift card: its hook
\* made c 2, and 2 is what was validated and stored
C26_Witness ==
  /\ task["out"].op = "save" /\ task["out"].i = "i3" /\ task["out"].pc = "done"
  /\ inst["i3"].f["c"] = Num(2)
  /\ task["out"].data = [c |-> Num(2)]
  /\ store[task["out"].path] = [c |-> Num(2)]

(***************************************************************************)
(* Properties of subcollection                                             *)
(***************************************************************************)
\* the step is one of a subcollection of chain t: the call, or its answer
SubcollectionStep(t) ==
  /\ task'[t].op = "subcollection"
  /\ task[t] # task'[t]

\* the step is the call of subcollection by chain t
SubcollectionIssued(t) == SubcollectionStep(t) /\ task[t].pc # "querying"

\* the key a document is stored under sorts before another one
KeyBefore(a, b) ==
  LET order == << "c1", "c2", "c3", "g1", "g2", "g3", "g4" >>
      rank(x) == CHOOSE k \in 1 .. Len(order) : order[k] = x
  IN rank(a) < rank(b)

\* the documents stored directly under base/name that the query selects
StoredUnder(base, name, queryFn) ==
  { p \in DOMAIN store :
      /\ Len(p) = Len(base) + 2
      /\ SubSeq(p, 1, Len(base) + 1) = base \o << name >>
      /\ queryFn # NoCond => Matches(store[p], queryFn) }

\* C21: subcollection(field, queryFn) called on an instance returns exactly
\* the documents stored under <the instance's storage path>/<declared name>
\* that the query selects (all of them without a query), each once, in the
\* order the query yields them (by key), each mapped to an instance of the
\* declared model whose owner is the instance the call was made on (the
\* storage path is the one computed from the instance's key and owners when
\* no reference was cached before the call, the cached one otherwise); for a
\* field with no sub-collection declaration the call fails with an error
\* and returns nothing.
C21_Subcollection ==
  [][\A t \in Tasks : SubcollectionStep(t) =>
       LET i == task'[t].i
           prop == task'[t].afterArg
           metas == { x \in SubCollectionOwn(inst[i].model) : x.propertyName = prop }
           rows == task'[t].rows
       IN /\ metas = {} => /\ task'[t].pc = "failed"
                           /\ task'[t].err = "Error"
                           /\ rows = << >>
          /\ task'[t].pc = "querying" =>
               /\ metas # {}
               /\ Uncached(inst, i) => inst'[i].docRef = OwnedPath(inst', i)
               /\ task'[t].path = inst'[i].docRef
          /\ task'[t].pc = "done" =>
               \E x \in metas :
                 LET sel == StoredUnder(inst'[i].docRef, x.name, task'[t].queryFn)
                 IN /\ task[t].pc = "querying"
                    /\ inst'[i].docRef = task[t].path
                    /\ { rows[k].docRef : k \in 1 .. Len(rows) } = sel
                    /\ Len(rows) = Cardinality(sel)
                    /\ \A k \in 1 .. Len(rows) :
                         /\ rows[k].parent = i
                         /\ rows[k].model = x.model
                         /\ rows[k].id = rows[k].docRef[Len(rows[k].docRef)]
                         /\ rows[k].f = store[rows[k].docRef]
                    /\ \A k, l \in 1 .. Len(rows) :
                         k < l => KeyBefore(rows[k].id, rows[l].id)]_vars

\* a query that selects one of the two cards stored under the owner
C21_Witness ==
  /\ task["out"].op = "subcollection"
  /\ task["out"].pc = "done"
  /\ task["out"].queryFn # NoCond
  /\ Len(task["out"].rows) = 1
  /\ task["out"].rows[1].parent = "i1"
  /\ Cardinality(StoredUnder(inst["i1"].docRef, "gift-cards", NoCond)) = 2

(***************************************************************************)
(* Properties of the declarations of a subtype (class Admin extends User) *)
(***************************************************************************)
\* a model class and its ancestors
RECURSIVE Lineage(_)
Lineage(m) == IF m = "" THEN {} ELSE {m} \cup Lineage(ProtoOf(m))

\* the declarations a subtype would see if every kind were resolved along
\* its ancestry, the closest declaration of a name winning
RECURSIVE LocationSeen(_)
LocationSeen(m) ==
  IF m = "" THEN ""
  ELSE IF CollectionMeta(m) # "" THEN CollectionMeta(m)
  ELSE LocationSeen(ProtoOf(m))
RECURSIVE RelatedSeen(_, _)
RelatedSeen(m, key) ==
  IF \E rel \in RelationOwn(m) : rel.propertyName = key
    THEN (CHOOSE rel \in RelationOwn(m) : rel.propertyName = key).relatedModel
    ELSE RelatedSeen(ProtoOf(m), key)
RECURSIVE ShapeSeen(_)
ShapeSeen(m) ==
  IF m = "" THEN EmptyMap ELSE Override(ShapeSeen(ProtoOf(m)), SchemaShape(m))
DefaultsSeen(m) ==
  UNION { TimestampDefaults(x) \cup { d.prop : d \in BooleanDefaults(x) } : x \in Lineage(m) }
SubCollectionsSeen(m) ==
  { x.propertyName : x \in UNION { SubCollectionOwn(y) : y \in Lineage(m) } }
IssuesSeen(m, data) ==
  { key \in DOMAIN data :
      IF key \in DOMAIN ShapeSeen(m) THEN ~FieldOk(ShapeSeen(m)[key], data[key])
      ELSE TRUE }

\* the save of chain t reaches its write: the path is under the location the
\* lineage declares closest, and a resolved relation is written as a pointer
\* into the location of the related type declared closest
WritesAsDeclaredClosest(t) ==
  LET i == task'[t].i
      me == inst[i]
  IN (SaveDispatched(t) /\ task'[t].pc = "writing" /\ ~SubModelMeta(me.model).has) =>
       /\ me.docRef = NoPath => task'[t].path = << LocationSeen(me.model), inst'[i].id >>
       /\ \A key \in DOMAIN me.f :
            (IsInst(me.f[key]) /\ me.f[key].id # NoId) =>
              /\ key \in DOMAIN task'[t].data
              /\ task'[t].data[key] =
                   Ref(<< getCollectionName(RelatedSeen(me.model, key)), me.f[key].id >>)

\* C30: for each kind of declaration (storage location, declared fields
\* used for validation, auto-fill defaults, relations, sub-collections) a
\* subtype sees its parent's declarations unless it overrides them, the
\* declaration closest to the concrete type winning: a save fills the
\* defaults declared anywhere in the lineage, validates against the fields
\* declared anywhere in the lineage, writes under the location and with the
\* relations declared closest, and subcollection answers for a property
\* declared anywhere in the lineage.
C30_DeclarationsInherited ==
  [][ \A t \in Tasks :
        LET i == task'[t].i
            me == inst[i]
        IN /\ Issues(t, {"save"}) =>
                \A key \in DefaultsSeen(me.model) : ~IsUnset(inst'[i].f, key)
           /\ SaveDispatched(t) =>
                (task'[t].err = "ValidationError"
                   <=> IssuesSeen(me.model, toFirestore(me.model, me.f, TRUE)) # {})
           /\ WritesAsDeclaredClosest(t)
           /\ (SubcollectionIssued(t) /\ task'[t].afterArg \in SubCollectionsSeen(me.model)
                 /\ getDocRef(inst, i, AutoId(nextAuto)).ok)
                => task'[t].pc = "querying"
    ]_vars

\* an Admin holding a field declared (for validation) by User only was
\* saved: no default of User was filled in and the field was refused
C30_Witness ==
  /\ task["out"].op = "save" /\ task["out"].pc = "failed"
  /\ inst["i1"].model = "Admin"
  /\ task["out"].i = "i1"
  /\ task["out"].err = "ValidationError"
  /\ task["out"].issues = {"a"}
  /\ IsUnset(inst["i1"].f, "ts")

\* C30, as far as it holds: the storage location and the relations are
\* resolved along the lineage, the closest declaration winning; the
\* defaults, the validated fields and the sub-collections are those the
\* concrete type declares itself.
C30_LocationAndRelationsInherited ==
  [][ \A t \in Tasks :
        LET i == task'[t].i
            me == inst[i]
            inherited == DefaultsSeen(me.model) \
                           (TimestampDefaults(me.model)
                              \cup { d.prop : d \in BooleanDefaults(me.model) })
        IN /\ WritesAsDeclaredClosest(t)
           /\ Issues(t, {"save"}) =>
                \A key \in inherited : IsUnset(me.f, key) => IsUnset(inst'[i].f, key)
           /\ SaveDispatched(t) =>
                (task'[t].err = "ValidationError"
                   <=> validationIssues(me.model, toFirestore(me.model, me.f, TRUE)) # {})
           /\ (SubcollectionIssued(t)
                 /\ ~\E x \in SubCollectionOwn(me.model) : x.propertyName = task'[t].afterArg)
                => task'[t].pc = "failed"
    ]_vars

\* an Admin was saved under the location User declares, its relation r
\* written as a pointer to the type Admin declares for it and its relation
\* g as one to the type User declares
C30_WitnessInherited ==
  /\ task["out"].op = "save" /\ task["out"].pc = "done"
  /\ task["out"].i = "i1"
  /\ inst["i1"].model = "Admin"
  /\ task["out"].path[1] = "users"
  /\ task["out"].data["r"] = Ref(<< "teams", "t1" >>)
  /\ task["out"].data["g"] = Ref(<< "gift-cards", "c1" >>)

(***************************************************************************)
(* The mapper on its own: an instance is populated (each call in its       *)
(* steps), mapped to its stored form, and the stored form is mapped back   *)
(***************************************************************************)
MapperStore ==
  [p \in { DeptD1, GiftC1 } |-> IF p = DeptD1 THEN [n |-> Num(1)] ELSE [c |-> Num(5)]]

\* a field left out, or set to one of vals
Opt(key, vals) == { EmptyMap } \cup { [k \in {key} |-> v] : v \in vals }

\* instances of User whose fields hold values of their declared shape
MapperInputs ==
  { User("k1", Override(fa, Override(fb, Override(fc, Override(fr, fg))))) :
      fa \in Opt("a", { Num(1), Null, Undef }),
      fb \in Opt("act", { Bool(FALSE) }),
      fc \in Opt("ts", { Ts(3) }),
      fr \in Opt("r", { Null, Undef, Ref(DeptD1), Ref(DeptD9),
                       InstV("Dept", NoId, NoPath) }),
      fg \in Opt("g", { Null, Ref(GiftC1) }) }

MapperInit ==
  /\ store = MapperStore
  /\ inst \in { [i \in Insts |-> IF i = "i1" THEN x ELSE NoInstance] : x \in MapperInputs }
  /\ task = [t \in Tasks |-> IdleTask]
  /\ unit = [u \in Units |-> NoUnit]
  /\ cur = 0
  /\ nextAuto = 0
  /\ nOps = 0
  /\ built = {}

\* i1._toFirestore(serializing): persist mode (true) gives the stored form,
\* the other mode the plain form used for validation and partial updates
ToStorage(serializing) ==
  /\ task["out"].pc \in {"idle", "done"}
  /\ task' = [task EXCEPT !["out"] =
       [IdleTask EXCEPT !.pc = IF serializing THEN "mapped" ELSE "plain",
          !.op = "toStorage", !.i = "i1",
          !.path = << getCollectionName(inst["i1"].model), inst["i1"].id >>,
          !.data = toFirestore(inst["i1"].model, inst["i1"].f, serializing)]]
  /\ UNCHANGED << store, inst, unit, cur, nextAuto, nOps >>
  /\ UNCHANGED built

\* i2 = User._fromFirestore(snapshot of the mapped form)
FromStorage ==
  /\ task["out"].pc = "mapped"
  /\ inst' = [inst EXCEPT !["i2"] =
       fromFirestore(inst["i1"].model, Snapshot(task["out"].path, TRUE, task["out"].data))]
  /\ task' = [task EXCEPT !["out"].pc = "loaded"]
  /\ UNCHANGED << store, unit, cur, nextAuto, nOps >>
  /\ UNCHANGED built

\* i2 = User._fromFirestore(snapshot) for a snapshot of users/k1 holding
\* data, or of no document; the afterLoad hook of the class returns, rejects
\* (an async hook that fails) or throws (a hook that fails before it returns
\* its promise): "Promise.resolve(instance.afterLoad(snapshot)).catch(...)"
FromSnapshot(data, exists, hook) ==
  /\ task["out"].pc = "idle"
  /\ LET snapshot == Snapshot(<< "users", "k1" >>, exists, data)
         call == [IdleTask EXCEPT !.op = "fromStorage", !.i = "i2", !.data = data,
                                  !.path = snapshot.path, !.answer = hook]
     IN IF exists /\ hook = "throws" THEN
          /\ task' = [task EXCEPT !["out"] =
               [call EXCEPT !.pc = "failed", !.err = "Error", !.nLoad = 1]]
          /\ UNCHANGED inst
        ELSE
          /\ inst' = [inst EXCEPT !["i2"] = fromFirestore("User", snapshot)]
          /\ task' = [task EXCEPT !["out"] =
               [call EXCEPT !.pc = "read", !.nLoad = IF exists THEN 1 ELSE 0,
                            !.ret = IF exists THEN "instance" ELSE "null"]]
  /\ UNCHANGED << store, unit, cur, nextAuto, nOps >>
  /\ UNCHANGED built

MapperNext ==
  \/ \E fieldName \in {"r", "g"} : PopulateStart("out", "i1", {fieldName})
  \/ \E fieldName \in {"r", "g"}, outcome \in GetOutcomes :
       PopulateFetched("out", fieldName, outcome)
  \/ PopulateSettle("out")
  \/ \E data \in { EmptyMap,
                    [a |-> Num(1), r |-> Ref(DeptD1), g |-> Null],
                    [a |-> Null, r |-> Num(3), zz |-> Ref(DeptD1)],
                    [a |-> Num(1), id |-> Val("string", "", "k9", NoPath, 0)] },
        exists \in BOOLEAN, hook \in {"returns", "rejects", "throws"} :
       FromSnapshot(data, exists, hook)
  \/ \E serializing \in BOOLEAN : ToStorage(serializing)
  \/ FromStorage

SpecMapper == MapperInit /\ [][MapperNext]_vars

\* field key of the instance mapped back is what the round trip promises for
\* the field of the instance mapped: a resolved relation comes back as the
\* pointer to the document it was resolved from (as null when the instance
\* was never stored and has no key), any other field unchanged
RoundTrips(key) ==
  LET before == inst["i1"].f[key]
      after == Get(inst["i2"].f, key)
  IN IF key \in relationProperties(inst["i1"].model) /\ IsInst(before)
       THEN IF before.id = NoId THEN after = Null
            ELSE IsRef(after) /\ after.p = before.p
       ELSE after = before

\* C8: once an instance was mapped to its stored form in persist mode and
\* the stored form mapped back, every non-relation field is unchanged and
\* every relation field that held a resolved instance is the pointer to the
\* document that instance was loaded from, whether the related type is
\* top-level or nested.
C8_RoundTrip ==
  task["out"].pc = "loaded" => \A key \in DOMAIN inst["i1"].f : RoundTrips(key)

\* the round trip of an instance whose relation to a nested type is resolved
C8_Witness ==
  /\ task["out"].pc = "loaded"
  /\ "g" \in DOMAIN inst["i1"].f
  /\ inst["i1"].f["g"] = InstV("Gift", "c1", GiftC1)
  /\ IsRef(Get(inst["i2"].f, "g"))

\* the same round trip holds for every field but a resolved relation to a
\* nested type
C8_RoundTripTopLevel ==
  task["out"].pc = "loaded" =>
    \A key \in DOMAIN inst["i1"].f :
       \/ RoundTrips(key)
       \/ /\ key \in relationProperties(inst["i1"].model)
          /\ SubModelMeta(RelatedModelOf(inst["i1"].model, key)).has

(***************************************************************************)
(* Properties of the mapping to storage in its two modes                   *)
(***************************************************************************)
\* the relation fields of the instance mapped
MappedRelations == DOMAIN inst["i1"].f \cap relationProperties(inst["i1"].model)

\* C32: mapped in partial-update mode, a relation field holding a resolved
\* instance is never emitted, and one holding a pointer or an explicit null
\* is emitted with that value; mapped in persist mode, a resolved instance
\* without an identity key is emitted as null.
C32_PartialModeRelations ==
  \A key \in MappedRelations :
    LET v == inst["i1"].f[key]
        data == task["out"].data
    IN /\ task["out"].pc = "plain" =>
            /\ IsInst(v) => key \notin DOMAIN data
            /\ (IsRef(v) \/ v = Null) => key \in DOMAIN data /\ data[key] = v
       /\ (task["out"].pc = "mapped" /\ IsInst(v) /\ v.id = NoId) =>
            key \in DOMAIN data /\ data[key] = Null

\* an instance whose relation r is an explicit null, mapped in
\* partial-update mode
C32_Witness ==
  /\ task["out"].pc = "plain"
  /\ "r" \in DOMAIN inst["i1"].f
  /\ inst["i1"].f["r"] = Null
  /\ "r" \notin DOMAIN task["out"].data

\* C32, as far as it holds: in partial-update mode only a pointer is
\* emitted for a relation field (a resolved instance and an explicit null
\* are both left out); in persist mode a pointer, a null and a resolved
\* instance are all emitted, the instance without a key as null.
C32_PartialModePointersOnly ==
  \A key \in MappedRelations :
    LET v == inst["i1"].f[key]
        data == task["out"].data
    IN /\ task["out"].pc = "plain" =>
            IF IsRef(v) THEN key \in DOMAIN data /\ data[key] = v
            ELSE key \notin DOMAIN data
       /\ task["out"].pc = "mapped" =>
            /\ (IsInst(v) /\ v.id = NoId) => key \in DOMAIN data /\ data[key] = Null
            /\ (IsRef(v) \/ v = Null) => key \in DOMAIN data /\ data[key] = v

(***************************************************************************)
(* Properties of the mapping from storage                                  *)
(***************************************************************************)
\* the mapping of a snapshot was asked for
SnapshotMapped == task["out"].op = "fromStorage"

\* the relation fields stored as pointers are held as those pointers, every
\* other stored field but key is taken over unchanged, nothing else is held
TakenOver(me, data, but) ==
  /\ DOMAIN me.f = DOMAIN data \ but
  /\ \A key \in DOMAIN me.f : me.f[key] = data[key]
  /\ me.cache = EmptyMap

\* C33: the mapping of a snapshot of an existing document, whatever fields
\* it contains, returns an instance whose identity key is the snapshot's
\* key, whose declared relation fields stored as pointers are held as those
\* pointers (not resolved) and whose other fields are the stored ones; the
\* mapping of a snapshot of no document returns null; a failure of the
\* post-load hook never makes the mapping fail.
C33_FromStorage ==
  SnapshotMapped =>
    /\ task["out"].pc # "failed"
    /\ task["out"].ret = "null" => inst["i2"] = NoInstance
    /\ task["out"].ret = "instance" =>
         /\ inst["i2"].id = task["out"].path[2]
         /\ TakenOver(inst["i2"], task["out"].data, {"id"})

\* the snapshot of users/k1 holding a field named id was mapped
C33_Witness ==
  /\ SnapshotMapped
  /\ task["out"].ret = "instance"
  /\ "id" \in DOMAIN task["out"].data
  /\ inst["i2"].id = "k9"
  /\ inst["i2"].docRef = << "users", "k1" >>

\* C33, as far as it holds: the identity key is the snapshot's key unless
\* the document holds a field named id, which then replaces it; the stored
\* fields are taken over as the claim says, a missing document gives null,
\* and a post-load hook that rejects does not make the mapping fail (one
\* that throws before returning its promise does).
C33_FromStorageUnlessIdStored ==
  SnapshotMapped =>
    /\ task["out"].pc = "failed" <=>
         (task["out"].answer = "throws" /\ task["out"].nLoad = 1)
    /\ task["out"].ret = "null" => inst["i2"] = NoInstance /\ task["out"].nLoad = 0
    /\ task["out"].ret = "instance" =>
         /\ task["out"].nLoad = 1
         /\ inst["i2"].id = IF "id" \in DOMAIN task["out"].data
                               THEN task["out"].data["id"].id
                               ELSE task["out"].path[2]
         /\ TakenOver(inst["i2"], task["out"].data, {"id"})

(***************************************************************************)
(* Properties of a direct update or delete the store rejects               *)
(***************************************************************************)
\* the step belongs to a direct update or delete of chain t that has not
\* been acknowledged: issued, dispatched, rejected by the store, or failed
Unacknowledged(t) ==
  /\ task[t] # task'[t]
  /\ task'[t].op \in {"update", "delete"}
  /\ task'[t].ctx = 0
  /\ task'[t].pc \in {"hooked", "writing", "nacked", "failed"}

\* C34: when the store rejects a direct update or delete, the call fails
\* with the store's error, the after-hook is not invoked, and the fields,
\* identity key and relation cache of the instance are as they were before
\* the call (the hooks before the write leave the instance alone here): no
\* step of the call up to and including its failure changes them.
C34_RejectedWriteLeavesInstance ==
  [][ \A t \in Tasks :
        LET i == task'[t].i IN
        /\ Unacknowledged(t) =>
             /\ inst'[i].f = inst[i].f
             /\ inst'[i].id = inst[i].id
             /\ inst'[i].cache = inst[i].cache
             /\ task'[t].nAfter = 0
        /\ (task[t].pc = "nacked" /\ task[t].op \in {"update", "delete"}
              /\ task[t] # task'[t]) =>
             /\ task'[t].pc = "failed"
             /\ task'[t].err = "StoreError"
             /\ store' = store
    ]_vars

\* a delete of the loaded instance, its relation r resolved and cached, was
\* rejected by the store: the instance keeps key and cache, the document is
\* still there
C34_Witness ==
  /\ task["out"].op = "delete" /\ task["out"].pc = "failed"
  /\ task["out"].err = "StoreError"
  /\ task["out"].i = "i1"
  /\ inst["i1"].id = "k2"
  /\ "r" \in DOMAIN inst["i1"].cache
  /\ Exists(store, UserK2)

\* an update of a relation of the same instance was rejected: the resolved
\* value and the cache entry are still there
C34_WitnessUpdate ==
  /\ task["out"].op = "update" /\ task["out"].pc = "failed"
  /\ task["out"].err = "StoreError"
  /\ "r" \in DOMAIN task["out"].data
  /\ "r" \in DOMAIN inst[task["out"].i].cache

(***************************************************************************)
(* Properties of the relation cache under update and direct assignment     *)
(***************************************************************************)
\* the step is the fetch of relation key of chain t's populate being answered
FetchAnswered(t, key) ==
  /\ task[t].pc = "populating"
  /\ key \in DOMAIN task[t].pending
  /\ key \notin DOMAIN task'[t].pending

\* value v is what pointer ptr designates: the instance of the related type
\* mapped from the document it points to, null when there is none
Designates(ptr, related, v) ==
  IF Exists(store, ptr.p)
    THEN IsInst(v) /\ v.m = related /\ v.id = ptr.id
    ELSE v = Null

\* a fetch that is answered sets the field and the cache to what the pointer
\* fetched designates, to null when the fetch failed
FetchResolves(t) ==
  \A key \in {"r", "g"} :
    FetchAnswered(t, key) =>
      LET i == task[t].i
          v == inst'[i].f[key]
      IN /\ inst'[i].cache[key] = v
         /\ IF key \in task'[t].fetchFailed THEN v = Null
            ELSE Designates(task[t].pending[key],
                            RelatedModelOf(inst[i].model, key), v)

\* C36: when update (direct or inside a helper) has written a pointer or
\* null to a relation field, the field holds that value and the relation
\* cache has no entry for it, while the cache entries of the relation fields
\* the patch does not name are kept; a populate called on a relation field
\* without a cache entry that holds a pointer fetches that pointer and sets
\* the field to what it designates.
C36_UpdateDropsCacheEntry ==
  [][ \A t \in Tasks :
        LET i == task'[t].i
            me == inst[i]
            data == task'[t].data
        IN /\ UpdateApplied(t) =>
                \A key \in relationProperties(me.model) :
                  IF key \in DOMAIN data
                    THEN (IsRef(data[key]) \/ data[key] = Null) =>
                           /\ key \notin DOMAIN inst'[i].cache
                           /\ inst'[i].f[key] = data[key]
                    ELSE /\ (key \in DOMAIN me.cache) = (key \in DOMAIN inst'[i].cache)
                         /\ key \in DOMAIN me.cache => inst'[i].cache[key] = me.cache[key]
           /\ PopulateIssued(t) =>
                \A key \in task'[t].fields \cap relationProperties(me.model) :
                  (key \notin DOMAIN me.cache /\ IsRef(Get(me.f, key))) =>
                    /\ key \in DOMAIN task'[t].pending
                    /\ task'[t].pending[key] = me.f[key]
           /\ FetchResolves(t)
    ]_vars

\* the instance loaded from users/k3 was populated (r cached as null, its
\* department missing), then updated inside a batch with a pointer for r:
\* the entry of r is gone, that of g is kept
C36_Witness ==
  /\ inst["i1"].id = "k3"
  /\ task["out"].op = "populate" /\ task["out"].pc = "done"
  /\ task["cb"].op = "update" /\ task["cb"].pc = "done"
  /\ task["cb"].ret = "undefined"
  /\ task["cb"].data = [r |-> Ref(DeptD1)]
  /\ inst["i1"].f["r"] = Ref(DeptD1)
  /\ "r" \notin DOMAIN inst["i1"].cache
  /\ "g" \in DOMAIN inst["i1"].cache

\* C37: populate always resolves the pointer currently held: called on a
\* relation field that holds a pointer, it fetches that pointer and leaves
\* the field equal to what the pointer designates, never to a value cached
\* by an earlier populate.
C37_PopulateResolvesHeldPointer ==
  [][ \A t \in Tasks :
        LET i == task'[t].i
            me == inst[i]
        IN /\ PopulateIssued(t) =>
                \A key \in task'[t].fields \cap relationProperties(me.model) :
                  IsRef(Get(me.f, key)) =>
                    /\ key \in DOMAIN task'[t].pending
                    /\ task'[t].pending[key] = me.f[key]
           /\ FetchResolves(t)
    ]_vars

\* relation r of the instance loaded from users/k3 was populated (null:
\* its department is missing) and then directly assigned the pointer to an
\* existing department
C37_Witness ==
  /\ inst["i1"].id = "k3"
  /\ task["out"].op = "populate" /\ task["out"].pc = "done"
  /\ inst["i1"].f["r"] = Ref(DeptD1)
  /\ "r" \in DOMAIN inst["i1"].cache
  /\ inst["i1"].cache["r"] = Null

\* C37 as amended: populate resolves the pointer held in a relation field
\* that has no cache entry; for a field with a cache entry (null included)
\* it fetches nothing and sets the field to the cached value, whatever
\* pointer the field was assigned since.
C37_PopulateResolvesUncached ==
  [][ \A t \in Tasks :
        LET i == task'[t].i
            me == inst[i]
        IN /\ PopulateIssued(t) =>
                \A key \in task'[t].fields \cap relationProperties(me.model) :
                  IsRef(Get(me.f, key)) =>
                    IF key \in DOMAIN me.cache
                      THEN /\ key \notin DOMAIN task'[t].pending
                           /\ inst'[i].f[key] = me.cache[key]
                      ELSE /\ key \in DOMAIN task'[t].pending
                           /\ task'[t].pending[key] = me.f[key]
           /\ FetchResolves(t)
    ]_vars

(***************************************************************************)
(* A unit of work that does not commit: the callback throws, the store     *)
(* refuses the commit, or the transaction is attempted again               *)
(***************************************************************************)
\* the attempts runTransaction makes before it gives up
MaxAttempts == 2

\* the store does not accept the commit: batch.commit() rejects and runInBatch
\* rethrows; db.runTransaction either rejects or, on contention, calls its
\* update function (and so the callback, in the same context) once more with
\* nothing enqueued
CommitRefused(retried) ==
  /\ cur > 0
  /\ unit[cur].phase = "committing"
  /\ IF retried
       THEN /\ unit[cur].kind = "tx"
            /\ unit[cur].commits < MaxAttempts
            /\ unit' = [unit EXCEPT ![cur].phase = "running", ![cur].queue = << >>]
       ELSE unit' = [unit EXCEPT ![cur].phase = "commitFailed", ![cur].err = "StoreError"]
  /\ UNCHANGED << store, inst, task, cur, nextAuto, nOps >>
  /\ UNCHANGED built

\* both chains delete the same instance i2: the callback inside the helper,
\* the other chain directly
UndoneNext ==
  \/ runInTransactionBegin
  \/ runInBatchBegin
  \/ CallbackResolves
  \/ \E err \in CallbackErrors : CallbackThrows(err)
  \/ CommitCalled
  \/ CommitApplied
  \/ \E retried \in BOOLEAN : CommitRefused(retried)
  \/ \E t \in Tasks :
       \/ DeleteStart(t, "i2")
       \/ DeleteDispatch(t)
       \/ DeleteSettle(t)
       \/ AfterHookResolves(t)
       \/ StoreApply(t)

SpecUndone == Init /\ [][UndoneNext]_vars

\* the step at which a delete() issued inside a helper hands its write to the unit
DeleteEnqueued(t) ==
  /\ task[t].op = "delete" /\ task[t].pc = "hooked" /\ task[t].ctx # 0
  /\ task'[t].pc = "done"

\* the unit u did not commit, or its callback is being executed again
NotCommitted(u) ==
  \/ unit[u].phase \in {"rejected", "commitFailed"}
  \/ unit[u].phase = "running" /\ unit[u].commits > 0

\* C35: a delete() inside a helper clears the key and the relation cache of the
\* instance at the step that enqueues the write, with the store untouched and
\* nothing committed; the steps by which the unit fails to commit (the callback
\* throws, the commit is refused, the callback is executed again) give neither
\* the key nor the cache back and leave the document in the store; and a
\* delete() on an instance without a key fails with the missing-identity error
C35_DeleteClearsAtEnqueue ==
  [][ /\ \A t \in Tasks :
           DeleteEnqueued(t) =>
             /\ inst'[task[t].i].id = NoId
             /\ inst'[task[t].i].cache = EmptyMap
             /\ store' = store
             /\ unit'[task[t].ctx].phase = "running"
             /\ unit'[task[t].ctx].commits = unit[task[t].ctx].commits
             /\ Exists(store', task'[t].path) = Exists(store, task'[t].path)
      /\ (cur > 0 /\ ~NotCommitted(cur) /\ NotCommitted(cur)') =>
             (inst' = inst /\ store' = store)
      /\ \A t \in Tasks :
           (nOps' = nOps + 1 /\ task'[t].op = "delete" /\ task'[t].pc \in {"hooked", "failed"}
              /\ (task'[t] # task[t] \/ task[t].pc = "failed")) =>
             IF inst[task'[t].i].id = NoId
               THEN task'[t].pc = "failed" /\ task'[t].err = "NoIdError" /\ inst' = inst
               ELSE task'[t].pc = "hooked"
    ]_vars

\* the populated users/k2 was deleted inside a transaction whose commit was
\* refused and whose callback ran again: the document is still stored, the
\* instance has neither key nor cache, and the repeated delete failed
C35_Witness ==
  /\ cur > 0 /\ unit[cur].kind = "tx" /\ unit[cur].commits > 0
  /\ Exists(store, UserK2)
  /\ inst["i2"].docRef = UserK2 /\ inst["i2"].id = NoId /\ inst["i2"].cache = EmptyMap
  /\ task["cb"].op = "delete" /\ task["cb"].pc = "failed" /\ task["cb"].err = "NoIdError"

\* the same after a callback that threw: the other chain's delete fails
C35_WitnessThrown ==
  /\ cur > 0 /\ unit[cur].phase = "rejected"
  /\ Len(unit[cur].queue) = 1 /\ unit[cur].queue[1].kind = "delete"
  /\ Exists(store, unit[cur].queue[1].path)
  /\ inst["i2"].id = NoId
  /\ task["out"].op = "delete" /\ task["out"].pc = "failed" /\ task["out"].err = "NoIdError"

(***************************************************************************)
(* reload() of an instance of a nested type                                *)
(***************************************************************************)
\* the step is the answer "ok" of the store to the fetch of a reload() by
\* chain t on an instance of a nested type
NestedReloadAnswered(t) ==
  /\ task[t].pc = "reloading" /\ task'[t].pc # "reloading"
  /\ task'[t].answer = "ok"
  /\ SubModelMeta(inst[task[t].i].model).has

\* the path the save, update and delete of instance i address
WriteAddress(I, i) == IF I[i].docRef # NoPath THEN I[i].docRef ELSE OwnedPath(I, i)

\* C39: a reload() of an instance of a nested type fetches the document at
\* the path its save, update and delete address (owner's path, sub-path,
\* key): when that document is stored the reload succeeds and the instance
\* holds the stored fields.
C39_ReloadNested ==
  [][ \A t \in Tasks :
        (NestedReloadAnswered(t) /\ Exists(store, WriteAddress(inst, task[t].i))) =>
          /\ task'[t].pc = "done"
          /\ \A key \in DOMAIN store[WriteAddress(inst, task[t].i)] :
               Get(inst'[task[t].i].f, key) = store[WriteAddress(inst, task[t].i)][key]
    ]_vars

\* the gift card was saved under users/k1 and is stored there; its reload
\* failed with NotFoundError
C39_Witness ==
  /\ inst["i1"].id = "k1"
  /\ inst["i2"].docRef = << "users", "k1", "gift-cards", inst["i2"].id >>
  /\ Exists(store, inst["i2"].docRef)
  /\ task["out"].op = "reload" /\ task["out"].i = "i2"
  /\ task["out"].pc = "failed" /\ task["out"].err = "NotFoundError"
  /\ task["out"].answer = "ok"

\* what does hold: reload() fetches <collection name of the type>/<key>, and
\* the collection name of a nested type is its sub-path alone; with no
\* document of that key stored in a top-level collection named like the
\* sub-path, the reload of a nested instance fails with NotFoundError and
\* leaves the instance and the store as they are, whether or not the document
\* its writes address is stored
C39_ReloadByCollectionName ==
  [][ \A t \in Tasks :
        LET i == task[t].i
        IN (NestedReloadAnswered(t)
              /\ ~Exists(store, << getCollectionName(inst[i].model), inst[i].id >>)) =>
             /\ getCollectionName(inst[i].model) = SubModelMeta(inst[i].model).subPath
             /\ task'[t].pc = "failed" /\ task'[t].err = "NotFoundError"
             /\ task'[t].errInfo = << inst[i].model, inst[i].id >>
             /\ inst' = inst /\ store' = store
    ]_vars

(***************************************************************************)
(* Saves of instances of a type and of the type it extends: the validation *)
(* schema each constructor ends up with                                    *)
(***************************************************************************)
\* i1 is a User, i2 an Admin (Admin extends User) holding fields of its own
\* shape or of User's, i3 a Dept; none is stored yet
ShapesInit ==
  /\ store = InitStore
  /\ inst \in { [i \in Insts |->
                   IF i = "i1" THEN User(NoId, [a |-> Num(a)])
                   ELSE IF i = "i2" THEN Instance("Admin", NoId, f, EmptyMap, "")
                   ELSE d] :
                  a \in {1, 999}, f \in { [lvl |-> Num(1)], [a |-> Num(1)] },
                  \* new Dept({n: 1}), await Dept.findById("d1")
                  d \in { Instance("Dept", NoId, [n |-> Num(1)], EmptyMap, ""),
                          findById(InitStore, "Dept", "d1") } }
  /\ task = [t \in Tasks |-> IdleTask]
  /\ unit = [u \in Units |-> NoUnit]
  /\ cur = 0
  /\ nextAuto = 0
  /\ nOps = 0
  /\ built = {}

ShapesNext ==
  \/ \E i \in Insts, merge \in BOOLEAN : SaveStart("out", i, merge)
  \/ \E i \in Insts : ValidateCall("out", i)
  \/ \E m \in {"User", "Admin", "Dept"} : SchemaGet("out", m)
  \/ SaveDispatch("out")
  \/ SaveSettle("out")
  \/ AfterHookResolves("out")
  \/ StoreApply("out")

SpecShapes == ShapesInit /\ [][ShapesNext]_vars

\* C38: a save validates the mapped instance against the shape declared on
\* its own type, whatever types were validated before: it fails with a
\* validation error exactly when that shape rejects the mapped instance, and
\* the issues are those of that shape.
C38_OwnShape ==
  [][ \A t \in Tasks :
        SaveDispatched(t) =>
          LET me == inst[task[t].i]
              data == toFirestore(me.model, me.f, TRUE)
          IN /\ (task'[t].err = "ValidationError") <=> (validationIssues(me.model, data) # {})
             /\ task'[t].issues = validationIssues(me.model, data)
    ]_vars

\* a User was validated first; the save of the Admin holding only its own
\* field lvl then failed validation on that field, which Admin's shape accepts
C38_Witness ==
  /\ "User" \in built /\ "Admin" \notin built
  /\ task["out"].op = "save" /\ task["out"].i = "i2"
  /\ task["out"].pc = "failed" /\ task["out"].err = "ValidationError"
  /\ task["out"].issues = {"lvl"}
  /\ validationIssues("Admin", toFirestore("Admin", inst["i2"].f, TRUE)) = {}

\* the Admin holding User's field a, which Admin's shape rejects, passed
\* validation after a User was validated and was stored
C38_WitnessAccepted ==
  /\ "User" \in built /\ "Admin" \notin built
  /\ task["out"].op = "save" /\ task["out"].i = "i2" /\ task["out"].pc = "done"
  /\ inst["i2"].docRef # NoPath /\ Exists(store, inst["i2"].docRef)
  /\ validationIssues("Admin", toFirestore("Admin", inst["i2"].f, TRUE)) # {}

\* what does hold: the shape applied is the one of the closest type, from the
\* instance's type upwards, whose schema was built before (its own when
\* there is none, and then its schema is built); so the own shape applies
\* when the type is validated before any type it extends
C38_ShapeOfFirstValidated ==
  [][ \A t \in Tasks :
        SaveDispatched(t) =>
          LET me == inst[task[t].i]
              data == toFirestore(me.model, me.f, TRUE)
              shape == IF me.model \in built THEN me.model
                       ELSE IF ProtoOf(me.model) \in built THEN ProtoOf(me.model)
                       ELSE me.model
          IN /\ (task'[t].err = "ValidationError") <=> (validationIssues(shape, data) # {})
             /\ task'[t].issues = validationIssues(shape, data)
             /\ built' = built \cup {shape}
             /\ (ProtoOf(me.model) \notin built) => shape = me.model
    ]_vars

(***************************************************************************)
(* Fetch-by-key and fetch-many with the same options on the same store     *)
(***************************************************************************)
\* FindOptions: nothing, populate: ["r"], populateSub: ["cards"],
\* populateSub: ["cards", "zz"] and populateSub: ["zz", "cards"] (User declares the
\* sub-collection property cards and no property zz)
FindNext ==
  \/ \E m \in {"User", "Dept"}, id \in {"k1", "k2", "k9", "d1"},
        options \in { NoPopulate, PopulateOf({"r"}) } \cup
                    { [NoPopulate EXCEPT !.populateSub = ps] :
                        ps \in { << "cards" >>, << "cards", "zz" >>, << "zz", "cards" >> } } :
       \/ FindByIdStart("out", m, id, options)
       \/ \E queryFn \in { NoCond, Cond("a", "==", Num(1)), Cond("a", "==", Num(7)) } :
            FindAllStart("out", m, queryFn, options)
  \/ \E outcome \in {"ok", "error"} : FindAllAnswered("out", outcome)
  \/ \E outcome \in GetOutcomes : FindByIdSettle("out", outcome)
  \/ \E outcome \in GetOutcomes : PopulateFetched("out", "r", outcome)
  \/ \E outcome \in GetOutcomes : FindByIdAttached("out", outcome)

SpecFind == NestedInit /\ [][FindNext]_vars

\* an instance apart from the converter of its cached reference (findById
\* keeps the reference of the snapshot it got, which carries the converter;
\* a row of findAll is mapped by the converter from a snapshot without)
Untyped(me) == [me EXCEPT !.typed = FALSE]

\* the step is the end of a findAll of chain t, every query and fetch it
\* made answered by the store
FindAllStep(t) ==
  /\ task[t].op = "findAll" /\ task[t].pc = "finding"
  /\ task'[t].pc \in {"done", "failed"}
  /\ task'[t].answer = "ok"
  /\ task'[t].err # "StoreError"
  /\ task'[t].fetchFailed = {}

\* the step is the return of a findById of chain t that found the document,
\* every fetch it made answered by the store
FindByIdFound(t) ==
  /\ task[t].op = "findById" /\ task[t].pc = "finding"
  /\ task'[t].pc = "done" /\ task'[t].ret = "instance"
  /\ task'[t].fetchFailed = {}

\* C31: findAll resolves each row as findById does for the same document and
\* the same options: a findAll returns, and each of its rows is the instance
\* findById gives for that key; a findById that finds its document gives the
\* instance that is the row of that key in a findAll of the whole collection,
\* which does not fail either.
C31_FindAllAsFindById ==
  [][ \A t \in Tasks :
        /\ FindAllStep(t) =>
             /\ task'[t].pc = "done"
             /\ \A id \in task'[t].found :
                  /\ id \in DOMAIN task'[t].results
                  /\ task'[t].results[id] =
                       Untyped(findByIdWith(store, task'[t].i, id, task'[t].options, "ok").v)
        /\ FindByIdFound(t) =>
             LET all == findAllWith(store, task[t].i, NoCond, task[t].options)
             IN /\ task'[t].pc = "done"
                /\ all.err = ""
                /\ all.rows[task[t].origId] = Untyped(task'[t].result)
    ]_vars

\* findAll with populateSub: ["cards", "zz"] on User failed with the error
\* of subcollection, rows being selected
C31_Witness ==
  /\ task["out"].op = "findAll" /\ task["out"].i = "User"
  /\ task["out"].options.populateSub = << "cards", "zz" >>
  /\ task["out"].pc = "failed" /\ task["out"].err = "Error"
  /\ findAll(store, "User", task["out"].queryFn) # {}
  /\ findByIdWith(store, "User", "k1", task["out"].options, "ok").err = ""

\* findAll with no option returned users/k1 with its two gift cards attached
C31_WitnessRows ==
  /\ task["out"].op = "findAll" /\ task["out"].pc = "done"
  /\ task["out"].options = NoPopulate
  /\ "k1" \in task["out"].found
  /\ Len(task["out"].results["k1"].f["cards"].rows) = 2

\* what does hold: the rows are resolved as findById resolves them when every
\* name in populateSub is declared on the class (or populateSub is absent or
\* empty: all the declared sub-collections are attached, by both); with a
\* name that is not declared findById skips it and returns the instance with
\* the others attached, while findAll fails with the error of subcollection
\* as soon as a row is selected
C31_FindAllAsFindByIdWhenDeclared ==
  [][ \A t \in Tasks :
        /\ FindAllStep(t) =>
             LET undeclared == Range(task'[t].options.populateSub) \ eagerSubs(task'[t].i)
                 keys == findAll(store, task'[t].i, task'[t].queryFn)
             IN IF undeclared # {} /\ keys # {}
                  THEN /\ task'[t].pc = "failed" /\ task'[t].err = "Error"
                       /\ \A id \in keys :
                            findByIdWith(store, task'[t].i, id, task'[t].options, "ok").err = ""
                  ELSE /\ task'[t].pc = "done" /\ DOMAIN task'[t].results = keys
                       /\ \A id \in keys :
                            task'[t].results[id] =
                              Untyped(findByIdWith(store, task'[t].i, id,
                                                   task'[t].options, "ok").v)
        /\ FindByIdFound(t) =>
             LET all == findAllWith(store, task[t].i, NoCond, task[t].options)
                 declared == Range(task[t].options.populateSub) \cap eagerSubs(task[t].i)
             IN /\ task'[t].pc = "done"
                /\ \A prop \in declared : prop \in DOMAIN task'[t].result.f
                /\ (Range(task[t].options.populateSub) \subseteq eagerSubs(task[t].i)) =>
                     (all.err = "" /\ all.rows[task[t].origId] = Untyped(task'[t].result))
    ]_vars

(***************************************************************************)
(* A scoped helper invoked by the callback of another                      *)
(***************************************************************************)
\* a nested helper that would leave the callback's chain in the context it had
HelperBeginNestedShared(kind) ==
  /\ CallbackRunning
  /\ ~CallbackAwaiting
  /\ cur + 1 \in DOMAIN unit
  /\ unit[cur + 1].phase = "unused"
  /\ cur' = cur
  /\ unit' = [unit EXCEPT ![cur + 1] = [NoUnit EXCEPT !.kind = kind, !.phase = "running"]]
  /\ UNCHANGED << store, inst, task, nextAuto, nOps, built >>

\* the running callback invokes runInTransaction or runInBatch and awaits it:
\* transactionContext.run(unit, callback) makes the new unit the context of
\* the chain for as long as the inner callback runs
HelperBeginNested(kind) ==
  /\ CallbackRunning
  /\ ~CallbackAwaiting
  /\ cur + 1 \in DOMAIN unit
  /\ unit[cur + 1].phase = "unused"
  /\ cur' = cur + 1
  /\ unit' = [unit EXCEPT ![cur + 1] = [NoUnit EXCEPT !.kind = kind, !.phase = "running"]]
  /\ UNCHANGED << store, inst, task, nextAuto, nOps, built >>

\* the inner helper has committed or rejected and the outer callback, which
\* awaited it, goes on: outside transactionContext.run(...) the context of the
\* chain is the outer unit again
InnerHelperReturns ==
  /\ cur > 1
  /\ unit[cur].phase \in {"committed", "commitFailed", "rejected"}
  /\ unit[cur - 1].phase = "running"
  /\ cur' = cur - 1
  /\ UNCHANGED << store, inst, task, unit, nextAuto, nOps, built >>

\* one unit more than the helpers invoked one after the other need, for the
\* helper invoked inside a callback
HelpersInit ==
  /\ store = InitStore
  /\ inst \in { [i \in Insts |-> IF i = "i1" THEN x ELSE IF i = "i2" THEN y ELSE NoInstance] :
                  x \in { User("k1", [a |-> Num(1), b |-> Num(2)]), User(NoId, [a |-> Num(1)]),
                          \* await User.findById("k1", {populateSub: ["nope"]})
                          findByIdWith(InitStore, "User", "k1",
                                       [NoPopulate EXCEPT !.populateSub = << "nope" >>],
                                       "ok").v },
                  y \in { User("k1", [a |-> Num(9)]) } }
  /\ task = [t \in Tasks |-> IdleTask]
  /\ unit = [u \in 1 .. (MaxUnits + 1) |-> NoUnit]
  /\ cur = 0
  /\ nextAuto = 0
  /\ nOps = 0
  /\ built = {}

HelpersNext ==
  \/ runInTransactionBegin
  \/ runInBatchBegin
  \/ \E kind \in {"tx", "batch"} : HelperBeginNested(kind)
  \/ InnerHelperReturns
  \/ CallbackResolves
  \/ \E err \in CallbackErrors : CallbackThrows(err)
  \/ CommitCalled
  \/ CommitApplied
  \/ SaveStart("cb", "i1", FALSE)
  \/ UpdateStart("cb", "i1", [a |-> Num(9)])
  \/ DeleteStart("cb", "i1")
  \/ SaveDispatch("cb")
  \/ UpdateDispatch("cb")
  \/ DeleteDispatch("cb")

SpecHelpers == HelpersInit /\ [][HelpersNext]_vars

\* the units whose callback has not returned yet
RunningUnits == { u \in DOMAIN unit : unit[u].phase = "running" }

\* the step enqueues a write of chain t
Joins(t) == task'[t].nEnq > task[t].nEnq

\* C40: with a helper invoked inside the callback of another, a call of the
\* callback chain enqueues its write into the unit of the innermost helper
\* whose callback is running and into no other: into the inner unit while the
\* inner callback runs, into the outer unit before the inner helper is
\* invoked and again after it has returned.
C40_NestedHelpers ==
  [][ \A t \in Tasks :
        Joins(t) =>
          /\ RunningUnits # {}
          /\ LET u == CHOOSE v \in RunningUnits : \A w \in RunningUnits : w <= v
             IN /\ task[t].ctx = u
                /\ Len(unit'[u].queue) = Len(unit[u].queue) + 1
                /\ unit'[u].queue[Len(unit'[u].queue)].path = task'[t].path
                /\ \A v \in DOMAIN unit \ {u} : unit'[v] = unit[v]
                /\ \A v \in DOMAIN unit :
                     (v > u /\ unit[v].phase # "unused") =>
                        unit[v].phase \in {"committed", "commitFailed", "rejected"}
    ]_vars

\* a batch ran inside a transaction's callback: the save issued by the inner
\* callback is the only write of the batch, which committed, and the update
\* issued after the batch helper returned is the only write of the transaction
C40_Witness ==
  /\ unit[1].kind = "tx" /\ unit[2].kind = "batch"
  /\ unit[2].phase = "committed" /\ cur = 1
  /\ Len(unit[2].queue) = 1 /\ unit[2].queue[1].kind = "set"
  /\ Len(unit[1].queue) = 1 /\ unit[1].queue[1].kind = "update"
  /\ task["cb"].op = "update" /\ task["cb"].ctx = 1 /\ task["cb"].pc = "done"

\* the reverse: a transaction inside a batch's callback, one write before the
\* inner helper in the batch, one inside it in the transaction
C40_WitnessReverse ==
  /\ unit[1].kind = "batch" /\ unit[2].kind = "tx"
  /\ unit[2].phase = "running" /\ cur = 2
  /\ Len(unit[1].queue) = 1 /\ Len(unit[2].queue) = 1
  /\ task["cb"].ctx = 2 /\ task["cb"].pc = "done"

====
